---- MODULE Spec2Model ----
(***************************************************************************)
(* A model of the OSINT Telegram bot (src/main.py) and its subscription    *)
(* manager (src/subscription_manager.py).                                  *)
(*                                                                         *)
(* Text is modelled as a sequence of one-character strings, so that the    *)
(* classifier's regular expressions, strip(), upper(), join() and int()    *)
(* are computed character by character.                                    *)
(***************************************************************************)
EXTENDS Integers, Sequences, FiniteSets, TLC

(***************************************************************************)
(* Characters and text                                                     *)
(***************************************************************************)
Digits == <<"0", "1", "2", "3", "4", "5", "6", "7", "8", "9">>

LowerLetters == <<"a", "b", "c", "d", "e", "f", "g", "h", "i", "j", "k", "l", "m",
                  "n", "o", "p", "q", "r", "s", "t", "u", "v", "w", "x", "y", "z">>

UpperLetters == <<"A", "B", "C", "D", "E", "F", "G", "H", "I", "J", "K", "L", "M",
                  "N", "O", "P", "Q", "R", "S", "T", "U", "V", "W", "X", "Y", "Z">>

Range(s) == {s[i] : i \in DOMAIN s}

DigitSet == Range(Digits)

LowerSet == Range(LowerLetters)

UpperSet == Range(UpperLetters)

IsDigit(c) == c \in DigitSet

IsUpper(c) == c \in UpperSet

IsLower(c) == c \in LowerSet

IsAlpha(c) == IsUpper(c) \/ IsLower(c)

IsAlnum(c) == IsAlpha(c) \/ IsDigit(c)

AlnumSet == DigitSet \cup LowerSet \cup UpperSet

IsSpace(c) == c \in {" ", "\t", "\n"}

\* Every character of s is one of chars
All(s, chars) == \A i \in DOMAIN s : s[i] \in chars

IndexOf(s, c) == CHOOSE i \in DOMAIN s : s[i] = c

DigitValue(c) == IndexOf(Digits, c) - 1

\* str.upper() on one character
UpperChar(c) == IF IsLower(c) THEN UpperLetters[IndexOf(LowerLetters, c)] ELSE c

\* str.upper()
ToUpper(s) == [i \in DOMAIN s |-> UpperChar(s[i])]

\* str.strip(): drop leading and trailing whitespace
Strip(s) ==
    LET keep == {i \in DOMAIN s : ~IsSpace(s[i])}
    IN  IF keep = {} THEN <<>>
        ELSE LET lo == CHOOSE i \in keep : \A j \in keep : i <= j
                 hi == CHOOSE i \in keep : \A j \in keep : i >= j
             IN  SubSeq(s, lo, hi)

\* str.endswith(suffix)
EndsWith(s, suffix) ==
    /\ Len(s) >= Len(suffix)
    /\ SubSeq(s, Len(s) - Len(suffix) + 1, Len(s)) = suffix

\* str.startswith(prefix)
StartsWith(s, prefix) ==
    /\ Len(s) >= Len(prefix)
    /\ SubSeq(s, 1, Len(prefix)) = prefix

RECURSIVE JoinArgs(_)
\* ' '.join(context.args)
JoinArgs(args) ==
    IF args = <<>> THEN <<>>
    ELSE IF Len(args) = 1 THEN args[1]
    ELSE args[1] \o <<" ">> \o JoinArgs(Tail(args))

RECURSIVE DecimalValue(_)
DecimalValue(s) ==
    IF s = <<>> THEN 0
    ELSE 10 * DecimalValue(SubSeq(s, 1, Len(s) - 1)) + DigitValue(s[Len(s)])

\* int(text) succeeds: an optional sign followed by decimal digits
IsIntText(s) ==
    LET body == IF s # <<>> /\ s[1] \in {"+", "-"} THEN Tail(s) ELSE s
    IN  body # <<>> /\ All(body, DigitSet)

\* int(text)
ParseInt(s) ==
    IF s[1] = "-" THEN 0 - DecimalValue(Tail(s))
    ELSE IF s[1] = "+" THEN DecimalValue(Tail(s))
    ELSE DecimalValue(s)

(***************************************************************************)
(* The input classifier, OSINTBot.validate_input                           *)
(***************************************************************************)
\* Mutant: ten digits or more
MatchesPhone10_or_more(q) == Len(q) >= 10 /\ All(q, DigitSet)

\* re.match(r'^\d{10}$', query)
MatchesPhone10(q) == Len(q) = 10 /\ All(q, DigitSet)

\* re.match(r'^\+91\d{10}$', query)
MatchesPhonePlus91(q) ==
    /\ Len(q) = 13
    /\ SubSeq(q, 1, 3) = <<"+", "9", "1">>
    /\ All(SubSeq(q, 4, 13), DigitSet)

\* re.match(r'^\d{12}$', query)
MatchesAadhaar(q) == Len(q) = 12 /\ All(q, DigitSet)

\* re.match(r'^[A-Z]{2}\d{1,2}[A-Z]{0,2}\d{4}$', text)
MatchesVehicle(t) ==
    \E a \in 1..2, b \in 0..2 :
        /\ Len(t) = 2 + a + b + 4
        /\ All(SubSeq(t, 1, 2), UpperSet)
        /\ All(SubSeq(t, 3, 2 + a), DigitSet)
        /\ All(SubSeq(t, 3 + a, 2 + a + b), UpperSet)
        /\ All(SubSeq(t, 3 + a + b, Len(t)), DigitSet)

HandleChars == AlnumSet \cup {".", "_", "-"}

HostChars == AlnumSet \cup {".", "-"}

\* re.match(r'^[a-zA-Z0-9._-]+@[a-zA-Z0-9.-]+$', query)
MatchesHandleAtDomain(q) ==
    \E i \in DOMAIN q :
        /\ q[i] = "@"
        /\ i > 1 /\ i < Len(q)
        /\ All(SubSeq(q, 1, i - 1), HandleChars)
        /\ All(SubSeq(q, i + 1, Len(q)), HostChars)

EmailSuffixes == {<<".", "c", "o", "m">>, <<".", "o", "r", "g">>, <<".", "n", "e", "t">>,
                  <<".", "e", "d", "u">>, <<".", "g", "o", "v">>}

\* Mutant: only .com makes an email
HasEmailSuffix_com_only(q) == EndsWith(q, <<".", "c", "o", "m">>)

\* query.endswith(('.com', '.org', '.net', '.edu', '.gov'))
HasEmailSuffix(q) == \E suf \in EmailSuffixes : EndsWith(q, suf)

\* re.match(r'^[a-zA-Z0-9._-]+$', query)
MatchesUsername(q) == q # <<>> /\ All(q, HandleChars)

\* The pieces of s between occurrences of sep, as (first, last) index pairs
Pieces(s, sep) ==
    LET cuts == {0, Len(s) + 1} \cup {i \in DOMAIN s : s[i] = sep}
    IN  {<<a + 1, b - 1>> : <<a, b>> \in
            {p \in cuts \X cuts : p[1] < p[2] /\ ~\E c \in cuts : p[1] < c /\ c < p[2]}}

\* A dotted-quad IPv4 literal: four decimal groups 0..255 without leading zeros
IsIPv4(q) ==
    LET ps == Pieces(q, ".")
    IN  /\ Cardinality(ps) = 4
        /\ \A p \in ps :
              LET g == SubSeq(q, p[1], p[2])
              IN  /\ Len(g) \in 1..3
                  /\ All(g, DigitSet)
                  /\ (Len(g) > 1 => g[1] # "0")
                  /\ DecimalValue(g) <= 255

HexChars == DigitSet \cup {"a", "b", "c", "d", "e", "f", "A", "B", "C", "D", "E", "F"}

\* An IPv6 literal: groups of 1..4 hex digits between colons, one "::" at most
IsIPv6(q) ==
    LET ps == Pieces(q, ":")
        empty == {p \in ps : p[2] < p[1]}
        inner == {p \in empty : p[1] > 1 /\ p[2] < Len(q)}
    IN  /\ Cardinality(ps) >= 3
        /\ \A p \in ps : p[2] - p[1] + 1 <= 4 /\ All(SubSeq(q, p[1], p[2]), HexChars)
        /\ Cardinality(inner) <= 1
        /\ (\E p \in empty : p[1] = 1) => (Len(q) >= 2 /\ q[2] = ":")
        /\ (\E p \in empty : p[2] = Len(q)) => (Len(q) >= 2 /\ q[Len(q) - 1] = ":")
        /\ IF \E i \in 1..(Len(q) - 1) : q[i] = ":" /\ q[i + 1] = ":"
           THEN Cardinality(ps) <= 9
           ELSE Cardinality(ps) = 8 /\ empty = {}

\* ipaddress.ip_address(query) does not raise ValueError
IsIPAddress(q) == IsIPv4(q) \/ IsIPv6(q)

LabelChars == AlnumSet \cup {"-", "_"}

\* validators.domain(query): dot-separated labels, the last one ending in a letter
IsDomain(q) ==
    LET ps == Pieces(q, ".")
    IN  /\ Cardinality(ps) >= 2
        /\ \A p \in ps :
              LET g == SubSeq(q, p[1], p[2])
              IN  /\ Len(g) \in 1..63
                  /\ All(g, LabelChars)
                  /\ IsAlnum(g[1])
                  /\ IsAlnum(g[Len(g)])
        /\ Len(q) >= 2
        /\ IsAlpha(q[Len(q)])
        /\ \E p \in ps : p[2] = Len(q) /\ p[2] - p[1] + 1 >= 2

UrlSchemes == {<<"h", "t", "t", "p", ":", "/", "/">>,
               <<"h", "t", "t", "p", "s", ":", "/", "/">>,
               <<"f", "t", "p", ":", "/", "/">>}

PathChars == AlnumSet \cup {"/", ".", "-", "_"}

\* validators.url(query): scheme://host[/path] with a domain or IPv4 host
IsUrl(q) ==
    \E sch \in UrlSchemes :
        /\ StartsWith(q, sch)
        /\ LET rest == SubSeq(q, Len(sch) + 1, Len(q))
               slashes == {i \in DOMAIN rest : rest[i] = "/"}
               stop == IF slashes = {} THEN Len(rest) + 1
                       ELSE CHOOSE i \in slashes : \A j \in slashes : i <= j
               host == SubSeq(rest, 1, stop - 1)
           IN  /\ (IsDomain(host) \/ IsIPv4(host))
               /\ All(SubSeq(rest, stop, Len(rest)), PathChars)

EmailLocalChars == AlnumSet \cup {".", "_", "-", "+"}

\* validators.email(query): local@domain with a valid domain
IsEmail(q) ==
    \E i \in DOMAIN q :
        /\ q[i] = "@"
        /\ i > 1
        /\ All(SubSeq(q, 1, i - 1), EmailLocalChars)
        /\ IsDomain(SubSeq(q, i + 1, Len(q)))

\* Mutant: only the plus sign is taken off
WithoutCountryCode_plus_only(q) == SubSeq(q, 2, Len(q))

\* Mutant: the country code is kept
WithoutCountryCode_kept(q) == q

\* query[3:]
WithoutCountryCode(q) == SubSeq(q, 4, Len(q))

Valid(type, value) == [valid |-> TRUE, type |-> type, value |-> value, error |-> "none"]

Invalid(error) == [valid |-> FALSE, type |-> "none", value |-> <<>>, error |-> error]

\* OSINTBot.validate_input: first match wins
validate_input(query) ==
    LET q == Strip(query)
    IN  IF q = <<>> THEN Invalid("Empty input provided")
        ELSE IF MatchesPhone10(q) THEN Valid("phone", q)
        ELSE IF MatchesPhonePlus91(q) THEN Valid("phone", WithoutCountryCode(q))
        ELSE IF MatchesAadhaar(q) THEN Valid("aadhaar", q)
        ELSE IF MatchesVehicle(ToUpper(q)) THEN Valid("vehicle", ToUpper(q))
        ELSE IF "@" \in Range(q) /\ MatchesHandleAtDomain(q)
             THEN IF HasEmailSuffix(q) THEN Valid("email", q) ELSE Valid("upi", q)
        ELSE IF "@" \in Range(q) /\ IsEmail(q) THEN Valid("email", q)
        ELSE IF IsIPAddress(q) THEN Valid("ip", q)
        ELSE IF IsDomain(q) THEN Valid("domain", q)
        ELSE IF IsUrl(q) THEN Valid("url", q)
        ELSE IF MatchesUsername(q) /\ Len(q) >= 3 THEN Valid("username", q)
        ELSE Invalid("Invalid input")

(***************************************************************************)
(* Configuration                                                           *)
(***************************************************************************)
\* OSINTBot.__init__: the configured ADMIN_USER_ID
admin_id == 1001

\* OSINTBot.__init__: OSINT_API_KEY default
api_key == <<"d", "a", "r", "k">>

\* SubscriptionManager.__init__
subscription_price == 399

subscription_days == 21

\* call_osint_api
\* Mutant: one retry too many
max_retries_plus_one == 3 + 1

max_retries == 3

retry_delay == 1

SecondsPerDay == 24 * 60 * 60

\* The identities that send updates: the administrator and one customer
Customer == admin_id + 1

UserIds == {admin_id, Customer}

(***************************************************************************)
(* Bounds                                                                  *)
(***************************************************************************)
\* The clock is sampled within MaxOffset seconds of time 0 and of the end of
\* a subscription window granted at time 0
MaxOffset == 1

Instants ==
    (0..MaxOffset) \cup
    ((21 * SecondsPerDay - MaxOffset)..(21 * SecondsPerDay + MaxOffset))

(***************************************************************************)
(* The Store (DatabaseManager), one row per user id                        *)
(***************************************************************************)
Unset == 0 - 1

NoRef == [kind |-> "none", text |-> <<>>, at |-> 0]

NoRow == [exists |-> FALSE, subscription_start |-> Unset, subscription_end |-> Unset,
          payment_amount |-> Unset, payment_reference |-> NoRef, granted_by |-> Unset]

NewRow == [NoRow EXCEPT !.exists = TRUE]

\* DatabaseManager.get_user: the row, or an absent row
get_user(d, user_id) == IF user_id \in DOMAIN d THEN d[user_id] ELSE NoRow

\* DatabaseManager.add_user: insert or ignore
add_user(d, user_id) ==
    IF d[user_id].exists THEN d ELSE [d EXCEPT ![user_id] = NewRow]

\* DatabaseManager.is_user_subscribed
is_user_subscribed(d, user_id, t) ==
    LET row == get_user(d, user_id)
    IN  row.exists /\ row.subscription_end # Unset /\ t < row.subscription_end

\* DatabaseManager.grant_subscription: the Store after the grant
grant_subscription(d, user_id, days, amount, by, payment_ref, t) ==
    [d EXCEPT ![user_id] =
        [@ EXCEPT !.subscription_start = t,
                  !.subscription_end = t + days * SecondsPerDay,
                  !.payment_amount = amount,
                  !.payment_reference = payment_ref,
                  !.granted_by = by]]

(***************************************************************************)
(* What a command does, in order: the events of its trace                  *)
(***************************************************************************)
NoOutcome == [exc |-> "none", code |-> 0, json |-> FALSE, body |-> <<>>]

Reply(what, val) == [kind |-> "reply", what |-> what, val |-> val, info |-> NoOutcome]

StoreOp(what) == [kind |-> "store", what |-> what, val |-> <<>>, info |-> NoOutcome]

ChatAction(what) == [kind |-> "chat_action", what |-> what, val |-> <<>>, info |-> NoOutcome]

Delete(what) == [kind |-> "delete", what |-> what, val |-> <<>>, info |-> NoOutcome]

Sleep(secs) == [kind |-> "sleep", what |-> "time.sleep", val |-> <<secs>>, info |-> NoOutcome]

\* One session.get: val holds the query parameters as (name, value) pairs
Http(params) == [kind |-> "http", what |-> "GET", val |-> params, info |-> NoOutcome]

(***************************************************************************)
(* response.json(): the JSON texts made of null, true, false, unsigned     *)
(* integers, strings without escapes, arrays and objects                   *)
(***************************************************************************)
Ws == {" ", "\n"}

Quote == "\""

RECURSIVE SkipWs(_, _)
\* The first position from i on that holds no whitespace
SkipWs(s, i) == IF i <= Len(s) /\ s[i] \in Ws THEN SkipWs(s, i + 1) ELSE i

\* The word stands at position i
Literal(s, i, word) ==
    i + Len(word) - 1 <= Len(s) /\ SubSeq(s, i, i + Len(word) - 1) = word

RECURSIVE DigitsEnd(_, _)
\* The position after the digits that start at i
DigitsEnd(s, i) == IF i <= Len(s) /\ s[i] \in DigitSet THEN DigitsEnd(s, i + 1) ELSE i

RECURSIVE StringEnd(_, _)
\* The position after the closing quote of the string whose text starts at i, 0 if the
\* string is not closed
StringEnd(s, i) ==
    IF i > Len(s) THEN 0
    ELSE IF s[i] = Quote THEN i + 1
    ELSE StringEnd(s, i + 1)

RECURSIVE ValueEnd(_, _)
RECURSIVE ElementsEnd(_, _)
RECURSIVE MembersEnd(_, _)
\* The position after the JSON value that starts at i, 0 if there is none
ValueEnd(s, i) ==
    IF i > Len(s) THEN 0
    ELSE IF Literal(s, i, <<"n", "u", "l", "l">>) THEN i + 4
    ELSE IF Literal(s, i, <<"t", "r", "u", "e">>) THEN i + 4
    ELSE IF Literal(s, i, <<"f", "a", "l", "s", "e">>) THEN i + 5
    ELSE IF s[i] = "0" THEN i + 1
    ELSE IF s[i] \in DigitSet THEN DigitsEnd(s, i)
    ELSE IF s[i] = Quote THEN StringEnd(s, i + 1)
    ELSE IF s[i] = "["
         THEN LET j == SkipWs(s, i + 1)
              IN  IF j <= Len(s) /\ s[j] = "]" THEN j + 1 ELSE ElementsEnd(s, j)
    ELSE IF s[i] = "{"
         THEN LET j == SkipWs(s, i + 1)
              IN  IF j <= Len(s) /\ s[j] = "}" THEN j + 1 ELSE MembersEnd(s, j)
    ELSE 0

\* The position after the "]" that closes the array whose next element starts at i
ElementsEnd(s, i) ==
    LET e == ValueEnd(s, i)
        k == SkipWs(s, e)
    IN  IF e = 0 \/ k > Len(s) THEN 0
        ELSE IF s[k] = "," THEN ElementsEnd(s, SkipWs(s, k + 1))
        ELSE IF s[k] = "]" THEN k + 1
        ELSE 0

\* The position after the "}" that closes the object whose next member starts at i
MembersEnd(s, i) ==
    IF i > Len(s) \/ s[i] # Quote THEN 0
    ELSE LET q == StringEnd(s, i + 1)
             c == SkipWs(s, q)
             v == ValueEnd(s, SkipWs(s, c + 1))
             k == SkipWs(s, v)
         IN  IF q = 0 \/ c > Len(s) \/ s[c] # ":" THEN 0
             ELSE IF v = 0 \/ k > Len(s) THEN 0
             ELSE IF s[k] = "," THEN MembersEnd(s, SkipWs(s, k + 1))
             ELSE IF s[k] = "}" THEN k + 1
             ELSE 0

\* response.json() returns a value: the body is one JSON value and whitespace
ParsesAsJson(body) ==
    LET e == ValueEnd(body, SkipWs(body, 1))
    IN  e # 0 /\ SkipWs(body, e) = Len(body) + 1

RECURSIVE Significant(_, _, _)
\* The text from i on without the whitespace outside strings
Significant(s, i, in_string) ==
    IF i > Len(s) THEN <<>>
    ELSE IF s[i] = Quote THEN <<s[i]>> \o Significant(s, i + 1, ~in_string)
    ELSE IF ~in_string /\ s[i] \in Ws THEN Significant(s, i + 1, in_string)
    ELSE <<s[i]>> \o Significant(s, i + 1, in_string)

\* The value response.json() returns, written without insignificant whitespace
json_value(body) == Significant(body, 1, FALSE)

\* Response bodies
JsonBody == <<"{", "\"", "d", "a", "t", "a", "\"", ":", " ", "[", "]", "}">>

HtmlBody == <<"<", "h", "t", "m", "l", ">">>

NullBody == <<"n", "u", "l", "l">>

TruncatedBody == <<"{", "\"", "d", "a", "t", "a", "\"", ":", " ">>

PaddedTextBody == <<" ", "b", "u", "s", "y", " ">>

Bodies == {JsonBody, HtmlBody, NullBody, TruncatedBody, PaddedTextBody, <<>>}

\* A response with the status code and the body
Response(code, body) ==
    [exc |-> "none", code |-> code, json |-> ParsesAsJson(body), body |-> body]

Status(code, json) == Response(code, IF json THEN JsonBody ELSE HtmlBody)

Raised(exc) == [exc |-> exc, code |-> 0, json |-> FALSE, body |-> <<>>]

StatusCodes == {200, 401, 403, 404, 429, 500}

Exceptions == {"ConnectTimeout", "ReadTimeout", "ConnectionError", "Exception"}

\* What one HTTP attempt can end in
Outcomes ==
    {Status(c, FALSE) : c \in StatusCodes} \cup {Status(200, TRUE)} \cup
    {Response(200, body) : body \in Bodies} \cup
    {Raised(e) : e \in Exceptions}

(***************************************************************************)
(* State                                                                   *)
(***************************************************************************)
VARIABLES
    now,         \* the clock the Store reads, in seconds
    db,          \* the Store: user id -> row
    cur,         \* the update being handled, or the last one handled
    pc,          \* "boot", "exited", "idle", "api" (inside call_osint_api's loop),
                 \* "backoff" (inside its time.sleep), "reply", "done",
                 \* "error" (an exception is on its way to error_handler),
                 \* "failed" (the handler raised and error_handler has returned)
    trace,       \* what the command of cur has done so far, in order
    attempt,     \* call_osint_api: the loop index
    last,        \* call_osint_api: what the most recent HTTP attempt ended in
    call,        \* call_osint_api: its arguments
    api_result,  \* call_osint_api: the value it returned
    env,         \* the environment variables the process was started with
    exit_status, \* the status the process exited with, Unset while it runs
    is_healthy,  \* OSINTBot.is_healthy
    context_error, \* context.error: the exception error_handler is about to be given
    queue        \* the updates that have arrived and are not yet taken up, oldest first

vars == <<now, db, cur, pc, trace, attempt, last, call, api_result,
          env, exit_status, is_healthy, context_error, queue>>

\* What the steps inside a handler leave alone
process == <<env, exit_status, is_healthy, context_error, queue>>

NoUpdate == [user |-> 0, cmd |-> "none", args |-> <<>>]

NoCall == [query |-> <<>>, query_type |-> "none"]

NoResult == [returned |-> FALSE, success |-> FALSE, error |-> "none", status |-> 0,
             data |-> "none", payload |-> <<>>]

\* {"success": True, "data": ...}: data is the parsed value ("json") or the mapping
\* with the one key raw_response ("raw_response"), payload the text of the value
Success(data, payload) ==
    [returned |-> TRUE, success |-> TRUE, error |-> "none", status |-> 0,
     data |-> data, payload |-> payload]

Failure(error, status) == [returned |-> TRUE, success |-> FALSE, error |-> error,
                           status |-> status, data |-> "none", payload |-> <<>>]

\* A function that falls off its end returns None
ReturnedNone == [returned |-> TRUE, success |-> FALSE, error |-> "None", status |-> 0,
                 data |-> "none", payload |-> <<>>]

(***************************************************************************)
(* SubscriptionManager                                                     *)
(***************************************************************************)
\* DatabaseManager.get_user_stats: the derived subscription status
subscription_status(d, user_id, t) ==
    LET row == get_user(d, user_id)
    IN  IF ~row.exists \/ row.subscription_end = Unset THEN "inactive"
        ELSE IF t < row.subscription_end THEN "active"
        ELSE "expired"

\* ceil of the remaining time in days, 0 when expired or never granted
days_remaining(d, user_id, t) ==
    IF subscription_status(d, user_id, t) = "active"
    THEN (get_user(d, user_id).subscription_end - t + SecondsPerDay - 1) \div SecondsPerDay
    ELSE 0

\* DatabaseManager.get_user_stats: the derived view, nothing for a user with no row
get_user_stats(d, user_id, t) ==
    [found |-> get_user(d, user_id).exists,
     subscription_status |-> subscription_status(d, user_id, t),
     days_remaining |-> days_remaining(d, user_id, t)]

\* Mutant: the expired variant is left out, an expired user is shown the inactive one
send_subscription_status_two_variants(d, user_id, t) ==
    LET stats == get_user_stats(d, user_id, t)
    IN  <<StoreOp("get_user_stats"),
          IF ~stats.found THEN Reply("status_not_found", <<>>)
          ELSE IF stats.subscription_status = "active"
          THEN Reply("status", <<"active", stats.days_remaining, "none">>)
          ELSE Reply("status", <<"inactive", 0, "contact_admin">>)>>

\* Mutant: the admin-contact button is attached to every variant
send_subscription_status_always_button(d, user_id, t) ==
    LET stats == get_user_stats(d, user_id, t)
    IN  <<StoreOp("get_user_stats"),
          IF ~stats.found THEN Reply("status_not_found", <<>>)
          ELSE IF stats.subscription_status = "active"
          THEN Reply("status", <<"active", stats.days_remaining, "contact_admin">>)
          ELSE IF stats.subscription_status = "expired"
          THEN Reply("status", <<"expired", 0, "contact_admin">>)
          ELSE Reply("status", <<"inactive", 0, "contact_admin">>)>>

\* SubscriptionManager.send_subscription_status: the reply holds the variant, the days
\* remaining it shows and its reply_markup
send_subscription_status(d, user_id, t) ==
    LET stats == get_user_stats(d, user_id, t)
        status == stats.subscription_status
        reply_markup == IF status # "active" THEN "contact_admin" ELSE "none"
    IN  <<StoreOp("get_user_stats"),
          IF ~stats.found THEN Reply("status_not_found", <<>>)
          ELSE IF status = "active"
          THEN Reply("status", <<"active", stats.days_remaining, reply_markup>>)
          ELSE IF status = "expired"
          THEN Reply("status", <<"expired", 0, reply_markup>>)
          ELSE Reply("status", <<"inactive", 0, reply_markup>>)>>

\* SubscriptionManager.send_subscription_required_message
send_subscription_required_message(d, user_id, t) ==
    <<StoreOp("get_user_stats"),
      Reply("subscription_required",
            <<IF subscription_status(d, user_id, t) = "expired" THEN "expired" ELSE "required">>)>>

\* Mutant: only that an admin is configured is checked
is_admin_anyone(user_id) == admin_id # 0

\* Mutant: the customer passes for an admin, too
is_admin_or_customer(user_id) == user_id \in {admin_id, Customer}

\* SubscriptionManager.is_admin
is_admin(user_id) == admin_id # 0 /\ user_id = admin_id

AccessDenied == <<Reply("access_denied", <<>>)>>

(***************************************************************************)
(* OSINTBot.call_osint_api                                                 *)
(***************************************************************************)
\* Mutant: the other types are passed upstream under their own name
TypeParam_passthrough(query_type) == IF query_type = "phone" THEN "number" ELSE query_type

\* The upstream parameter name of a query type, "none" for an unsupported type
TypeParam(query_type) ==
    CASE query_type = "phone" -> "number"
      [] query_type = "vehicle" -> "vehicle"
      [] query_type = "aadhaar" -> "aadhaar"
      [] query_type = "upi" -> "upi"
      [] OTHER -> "none"

\* params = {'key': self.api_key, <type param>: query}
RequestParams(query, query_type) == {<<"key", api_key>>, <<TypeParam(query_type), query>>}

Return(result) == [continue |-> FALSE, sleeps |-> <<>>, result |-> result]

Retry(secs) == [continue |-> TRUE, sleeps |-> <<secs>>, result |-> NoResult]

\* Mutant: gives up one attempt early
RetryOrFail_early(n, secs, failure) ==
    IF n < max_retries - 2 THEN Retry(secs) ELSE Return(failure)

\* Mutant: the last iteration, too, sleeps and continues
RetryOrFail_always_retry(n, secs, failure) == Retry(secs)

\* if attempt < max_retries - 1: time.sleep(delay); continue -- else return the failure
RetryOrFail(n, secs, failure) == IF n < max_retries - 1 THEN Retry(secs) ELSE Return(failure)

\* Mutant: every status from 400 on is taken for a server error
IsServerError_from400(code) == code >= 400

\* response.status_code >= 500
IsServerError(code) == code >= 500

\* Mutant: the delay after a 429 grows with the loop index, which starts at 0
rate_limit_delay_from_zero(n) == retry_delay * n

\* time.sleep(retry_delay * (attempt + 1)) after a 429 at loop index n
rate_limit_delay(n) == retry_delay * (n + 1)

\* Mutant: a body that does not parse is reported as a failure
ok_result_strict(o) ==
    IF ParsesAsJson(o.body) THEN Success("json", json_value(o.body))
    ELSE Failure("invalid response", 200)

\* The 200 branch: response.json(), or the raw text when that raises
ok_result(o) ==
    IF ParsesAsJson(o.body) THEN Success("json", json_value(o.body))
    ELSE Success("raw_response", o.body)

\* One iteration of the retry loop, for loop index n and the attempt's outcome o
AttemptResult(n, o) ==
    IF o.exc = "none"
    THEN IF o.code = 200
         THEN Return(ok_result(o))
         ELSE IF o.code = 404 THEN Return(Failure("service unavailable", 404))
         ELSE IF o.code = 401 THEN Return(Failure("authentication failed", 401))
         ELSE IF o.code = 429
              THEN RetryOrFail(n, rate_limit_delay(n), Failure("rate limit exceeded", 429))
         ELSE IF IsServerError(o.code)
              THEN RetryOrFail(n, retry_delay, Failure("server error", o.code))
         ELSE Return(Failure("service error", o.code))
    ELSE IF o.exc = "ConnectTimeout"
         THEN RetryOrFail(n, retry_delay, Failure("connection timeout", 0))
    ELSE IF o.exc = "ReadTimeout"
         THEN RetryOrFail(n, retry_delay, Failure("request timeout", 0))
    ELSE IF o.exc = "ConnectionError"
         THEN RetryOrFail(n, retry_delay, Failure("unable to connect", 0))
    ELSE RetryOrFail(n, retry_delay, Failure("unexpected error", 0))

\* The events of one iteration: the GET, then the backoff sleep if it retries
AttemptEvents(n, o) ==
    <<Http(RequestParams(call.query, call.query_type))>> \o
    [i \in DOMAIN AttemptResult(n, o).sleeps |-> Sleep(AttemptResult(n, o).sleeps[i])]

\* A command that ends at once
Finish(tr) ==
    /\ trace' = tr
    /\ pc' = "done"
    /\ attempt' = 0
    /\ last' = NoOutcome
    /\ call' = NoCall
    /\ api_result' = NoResult

\* Entry of call_osint_api: an unsupported type returns before the loop
BeginCall(tr, query, query_type) ==
    /\ trace' = tr
    /\ call' = [query |-> query, query_type |-> query_type]
    /\ attempt' = 0
    /\ last' = NoOutcome
    /\ IF TypeParam(query_type) = "none"
       THEN pc' = "reply" /\ api_result' = Failure("not supported", 0)
       ELSE pc' = "api" /\ api_result' = NoResult

\* One iteration of "for attempt in range(max_retries)", or the end of the loop
ApiStep ==
    /\ pc = "api"
    /\ IF attempt < max_retries
       THEN \E o \in Outcomes :
               /\ trace' = trace \o AttemptEvents(attempt, o)
               /\ last' = o
               /\ IF AttemptResult(attempt, o).continue
                  THEN attempt' = attempt + 1 /\ pc' = "backoff" /\ api_result' = NoResult
                  ELSE /\ attempt' = attempt
                       /\ pc' = "reply"
                       /\ api_result' = AttemptResult(attempt, o).result
       ELSE /\ trace' = trace
            /\ attempt' = attempt
            /\ last' = last
            /\ pc' = "reply"
            /\ api_result' = ReturnedNone
    /\ UNCHANGED <<now, db, cur, call>>
    /\ UNCHANGED process

\* time.sleep returns: "continue" takes the loop to its next iteration
Wake ==
    /\ pc = "backoff"
    /\ pc' = "api"
    /\ UNCHANGED <<now, db, cur, trace, attempt, last, call, api_result>>
    /\ UNCHANGED process

\* Mutant: the status message is deleted on the success path only
FinishReply_delete_on_success ==
    /\ pc = "reply"
    /\ trace' = trace \o
          (IF api_result.success
           THEN <<Delete("processing_msg"), Reply("result", <<api_result.data>>)>>
           ELSE <<Reply("error", <<api_result.error>>)>>)
    /\ pc' = "done"
    /\ UNCHANGED <<now, db, cur, attempt, last, call, api_result>>
    /\ UNCHANGED process

\* After the call: delete the status message, then the one final reply
FinishReply ==
    /\ pc = "reply"
    /\ trace' = trace \o
          <<Delete("processing_msg"),
            IF api_result.success THEN Reply("result", <<api_result.data>>)
            ELSE Reply("error", <<api_result.error>>)>>
    /\ pc' = "done"
    /\ UNCHANGED <<now, db, cur, attempt, last, call, api_result>>
    /\ UNCHANGED process

(***************************************************************************)
(* Inputs: the argument lists (context.args) the updates carry             *)
(***************************************************************************)
Q_phone == <<"9", "1", "7", "7", "0", "7", "5", "6", "6", "6">>

Q_plus91 == <<"+", "9", "1", "9", "1", "7", "7", "0", "7", "5", "6", "6", "6">>

Q_aadhaar == <<"1", "2", "3", "4", "5", "6", "7", "8", "9", "0", "1", "2">>

Q_plate == <<"j", "k", "0", "5", "f", "1", "8", "0", "6">>

Q_upi == <<"u", "s", "e", "r", "@", "p", "a", "y", "t", "m">>

Q_email == <<"u", "s", "e", "r", "@", "e", "x", "a", "m", "p", "l", "e", ".", "c", "o", "m">>

Q_bad == <<"@", "@">>

Q_ip == <<"8", ".", "8", ".", "8", ".", "8">>

Q_domain == <<"e", "x", "a", "m", "p", "l", "e", ".", "o", "r", "g">>

Q_url == <<"h", "t", "t", "p", ":", "/", "/", "e", "x", "a", "m", "p", "l", "e", ".", "o", "r", "g", "/", "a">>

Q_username == <<"1", "2", "3", "4", "5">>

T_customer == <<"1", "0", "0", "2">>

T_unknown == <<"7">>

T_word == <<"a", "b", "c">>

T_ref == <<"P", "A", "Y", "1">>

OsintArgs == {<<>>, <<Q_phone>>, <<Q_email>>, <<Q_ip>>, <<Q_domain>>, <<Q_url>>, <<Q_username>>,
              <<Q_bad>>}

PhoneArgs == {<<>>, <<Q_phone>>, <<Q_plus91>>, <<Q_aadhaar>>, <<Q_bad>>}

VehicleArgs == {<<>>, <<Q_plate>>, <<Q_phone>>}

AadharArgs == {<<>>, <<Q_aadhaar>>, <<Q_phone>>}

UpiArgs == {<<>>, <<Q_upi>>, <<Q_email>>}

GrantArgs == {<<>>, <<T_customer>>, <<T_customer, T_ref>>, <<T_unknown>>, <<T_word>>}

UserinfoArgs == {<<>>, <<T_customer>>, <<T_unknown>>, <<T_word>>}

AdminArgs == {<<>>, <<T_word>>}

NoArgs == {<<>>}

(***************************************************************************)
(* OSINTBot: the command handlers                                          *)
(***************************************************************************)
GateOps == <<StoreOp("add_user"), StoreOp("is_user_subscribed")>>

\* Mutant: the application is built with concurrent updates, a handler may start while
\* another one is waiting
NoHandlerRunning_concurrent == pc \in {"idle", "api", "backoff", "reply"}

\* Mutant: the backoff is a yielding sleep and updates are handled concurrently
NoHandlerRunning_yielding_sleep == pc \in {"idle", "backoff"}

\* Application.builder().token(...).build(): updates are processed one at a time, the
\* next one is taken up when the handler of the previous one has returned; session.get
\* and time.sleep inside a handler return control to nobody
NoHandlerRunning == pc = "idle"

\* self.db.log_usage(user.id, command_name, query)
LogUsage(command_name, query) ==
    [kind |-> "store", what |-> "log_usage", val |-> <<command_name, query>>, info |-> NoOutcome]

\* ' '.join(context.args) if context.args else 'N/A'
UsageQuery(args) == IF args = <<>> THEN <<"N", "/", "A">> ELSE JoinArgs(args)

\* SubscriptionManager.require_subscription, the wrapper up to its call of the wrapped
\* command: the Store after it, whether it delegates, and what it did. No handler that
\* OSINTBot.run registers is wrapped in it.
require_subscription(d, user_id, command_name, args, t) ==
    LET upserted == add_user(d, user_id)
    IN  IF ~is_user_subscribed(upserted, user_id, t)
        THEN [db |-> upserted, delegates |-> FALSE,
              ops |-> GateOps \o send_subscription_required_message(upserted, user_id, t)]
        ELSE [db |-> upserted, delegates |-> TRUE,
              ops |-> GateOps \o <<LogUsage(command_name, UsageQuery(args))>>]

\* The inline access check of each gated command, after its add_user
osint_gate(d, user_id, t) == is_user_subscribed(d, user_id, t)

phone_gate(d, user_id, t) == is_user_subscribed(d, user_id, t)

vehicle_gate(d, user_id, t) == is_user_subscribed(d, user_id, t)

aadhar_gate(d, user_id, t) == is_user_subscribed(d, user_id, t)

\* Mutant: the command forgets its access check
upi_gate_forgotten(d, user_id, t) == TRUE

upi_gate(d, user_id, t) == is_user_subscribed(d, user_id, t)

\* Mutant: the type check is left out
TypeMismatch_never(detected_type, query_type) == FALSE

\* _process_osint_query: type mismatch is detected_type != query_type
TypeMismatch(detected_type, query_type) == detected_type # query_type

\* "Please use the correct command: /{detected_type} {query}": the command it names
suggested_command(detected_type) == detected_type

\* OSINTBot._process_osint_query, up to the upstream call
process_osint_query(tr, query, query_type) ==
    LET v == validate_input(query)
    IN  IF ~v.valid
        THEN Finish(tr \o <<Reply("invalid_format", <<query_type>>)>>)
        ELSE IF TypeMismatch(v.type, query_type)
        THEN Finish(tr \o <<Reply("type_mismatch", <<v.type>>)>>)
        ELSE BeginCall(tr \o <<Reply("processing", <<query_type>>), ChatAction("typing")>>,
                       v.value, query_type)

\* OSINTBot.osint_command after the gate, up to the upstream call
osint_query(tr, args) ==
    LET v == validate_input(Strip(JoinArgs(args)))
    IN  IF ~v.valid
        THEN Finish(tr \o <<ChatAction("typing"), Reply("invalid_input", <<>>)>>)
        ELSE BeginCall(tr \o <<ChatAction("typing"), Reply("processing", <<v.type>>)>>,
                       v.value, v.type)

\* The part the five gated commands share: upsert, access check, usage text
GatedCommand(u, cmd, args, passed, query_type) ==
    /\ NoHandlerRunning
    /\ cur' = [user |-> u, cmd |-> cmd, args |-> args]
    /\ db' = add_user(db, u)
    /\ UNCHANGED now
    /\ IF ~passed
       THEN Finish(GateOps \o send_subscription_required_message(add_user(db, u), u, now))
       ELSE IF args = <<>>
       THEN Finish(GateOps \o <<Reply("usage", <<cmd>>)>>)
       ELSE IF cmd = "osint"
       THEN osint_query(GateOps, args)
       ELSE process_osint_query(GateOps, JoinArgs(args), query_type)

osint_command(u, args) ==
    GatedCommand(u, "osint", args, osint_gate(add_user(db, u), u, now), "any")

phone_command(u, args) ==
    GatedCommand(u, "phone", args, phone_gate(add_user(db, u), u, now), "phone")

vehicle_command(u, args) ==
    GatedCommand(u, "vehicle", args, vehicle_gate(add_user(db, u), u, now), "vehicle")

aadhar_command(u, args) ==
    GatedCommand(u, "aadhar", args, aadhar_gate(add_user(db, u), u, now), "aadhaar")

upi_command(u, args) ==
    GatedCommand(u, "upi", args, upi_gate(add_user(db, u), u, now), "upi")

\* Mutant: /start writes a fresh row for the caller instead of inserting or ignoring
start_command_fresh_row(u, args) ==
    /\ NoHandlerRunning
    /\ cur' = [user |-> u, cmd |-> "start", args |-> args]
    /\ db' = [db EXCEPT ![u] = NewRow]
    /\ UNCHANGED now
    /\ Finish(GateOps \o
              <<Reply("welcome",
                      <<IF is_user_subscribed([db EXCEPT ![u] = NewRow], u, now)
                        THEN "active" ELSE "subscription_required">>)>>)

\* OSINTBot.start_command
start_command(u, args) ==
    /\ NoHandlerRunning
    /\ cur' = [user |-> u, cmd |-> "start", args |-> args]
    /\ db' = add_user(db, u)
    /\ UNCHANGED now
    /\ Finish(GateOps \o
              <<Reply("welcome",
                      <<IF is_user_subscribed(add_user(db, u), u, now)
                        THEN "active" ELSE "subscription_required">>)>>)

\* OSINTBot.help_command
help_command(u, args) ==
    /\ NoHandlerRunning
    /\ cur' = [user |-> u, cmd |-> "help", args |-> args]
    /\ UNCHANGED <<now, db>>
    /\ Finish(<<Reply("help", <<>>)>>)

\* Mutant: /subscribe registers the caller like the gated commands do
subscribe_command_upserts(u, args) ==
    /\ NoHandlerRunning
    /\ cur' = [user |-> u, cmd |-> "subscribe", args |-> args]
    /\ now' = now
    /\ db' = add_user(db, u)
    /\ Finish(<<StoreOp("add_user")>> \o send_subscription_required_message(db, u, now))

\* OSINTBot.subscribe_command
subscribe_command(u, args) ==
    /\ NoHandlerRunning
    /\ cur' = [user |-> u, cmd |-> "subscribe", args |-> args]
    /\ UNCHANGED <<now, db>>
    /\ Finish(send_subscription_required_message(db, u, now))

\* query.answer()
Answer == [kind |-> "answer", what |-> "callback_query", val |-> <<>>, info |-> NoOutcome]

\* query.edit_message_text(text)
Edit(what, val) == [kind |-> "edit", what |-> what, val |-> val, info |-> NoOutcome]

\* The callback_data of the "Check Status" button
check_status == <<"c", "h", "e", "c", "k", "_", "s", "t", "a", "t", "u", "s">>

\* The data callback queries carry: the button's, and data no button of the bot has
CallbackData == {check_status, <<"c", "h", "e", "c", "k", "_", "s", "t", "a", "t", "u">>, <<"s", "u", "b", "s", "c", "r", "i", "b", "e">>}

\* The text the check_status callback puts in place of the message
StatusSummary(d, user_id, t) ==
    LET stats == get_user_stats(d, user_id, t)
    IN  IF ~stats.found THEN Edit("status_not_found", <<>>)
        ELSE IF stats.subscription_status = "active"
        THEN Edit("active_summary", <<stats.days_remaining>>)
        ELSE Edit("no_active_subscription", <<>>)

\* Mutant: the message is edited whatever the data
callback_query_handler_any_data(u, data) ==
    /\ NoHandlerRunning
    /\ cur' = [user |-> u, cmd |-> "callback_query", args |-> <<data>>]
    /\ UNCHANGED <<now, db>>
    /\ Finish(<<Answer, StoreOp("get_user_stats"), StatusSummary(db, u, now)>>)

\* OSINTBot.callback_query_handler, for a callback query with the data from user u
callback_query_handler(u, data) ==
    /\ NoHandlerRunning
    /\ cur' = [user |-> u, cmd |-> "callback_query", args |-> <<data>>]
    /\ UNCHANGED <<now, db>>
    /\ IF data = check_status
       THEN Finish(<<Answer, StoreOp("get_user_stats"), StatusSummary(db, u, now)>>)
       ELSE Finish(<<Answer>>)

\* The commands run() registers a CommandHandler for
RegisteredCommands ==
    {"start", "help", "osint", "phone", "vehicle", "aadhar", "upi", "subscribe", "status",
     "grant", "userinfo", "admin"}

\* Command names users send that have no CommandHandler
OtherCommands == {"aadhaar", "email", "stats"}

UnknownArgs == {<<>>, <<Q_aadhaar>>, <<Q_email>>}

\* OSINTBot.unknown_command: MessageHandler(filters.COMMAND), registered last, gets the
\* commands no CommandHandler took
unknown_command(u, cmd, args) ==
    /\ NoHandlerRunning
    /\ cmd \notin RegisteredCommands
    /\ cur' = [user |-> u, cmd |-> cmd, args |-> args]
    /\ UNCHANGED <<now, db>>
    /\ Finish(<<Reply("unknown_command", <<>>)>>)

\* OSINTBot.status_command
status_command(u, args) ==
    /\ NoHandlerRunning
    /\ cur' = [user |-> u, cmd |-> "status", args |-> args]
    /\ UNCHANGED <<now, db>>
    /\ Finish(send_subscription_status(db, u, now))

GivenRef(text) == [kind |-> "given", text |-> text, at |-> 0]

\* Mutant: the generated reference does not depend on the time
AutoRef_constant(t) == [kind |-> "auto", text |-> <<>>, at |-> 0]

\* f"ADMIN_GRANT_{datetime.now().strftime('%Y%m%d_%H%M%S')}"
AutoRef(t) == [kind |-> "auto", text |-> <<>>, at |-> t]

\* Mutant: the existence check is left out
grant_user_subscription_unchecked(d, user_id, by, payment_ref, t) ==
    [success |-> TRUE,
     db |-> grant_subscription(d, user_id, subscription_days, subscription_price,
                               by, payment_ref, t),
     ops |-> <<StoreOp("get_user"), StoreOp("grant_subscription")>>]

\* Mutant: days and amount are passed in each other's place
grant_user_subscription_swapped(d, user_id, by, payment_ref, t) ==
    IF ~get_user(d, user_id).exists
    THEN [success |-> FALSE, db |-> d, ops |-> <<StoreOp("get_user")>>]
    ELSE [success |-> TRUE,
          db |-> grant_subscription(d, user_id, subscription_price, subscription_days,
                                    by, payment_ref, t),
          ops |-> <<StoreOp("get_user"), StoreOp("grant_subscription")>>]

\* Mutant: the days are passed with the wrong sign, the window is counted back from now
grant_user_subscription_days_back(d, user_id, by, payment_ref, t) ==
    IF ~get_user(d, user_id).exists
    THEN [success |-> FALSE, db |-> d, ops |-> <<StoreOp("get_user")>>]
    ELSE [success |-> TRUE,
          db |-> grant_subscription(d, user_id, 0 - subscription_days, subscription_price,
                                    by, payment_ref, t),
          ops |-> <<StoreOp("get_user"), StoreOp("grant_subscription")>>]

\* SubscriptionManager.grant_user_subscription: its result, the Store and its Store calls
grant_user_subscription(d, user_id, by, payment_ref, t) ==
    IF ~get_user(d, user_id).exists
    THEN [success |-> FALSE, db |-> d, ops |-> <<StoreOp("get_user")>>]
    ELSE [success |-> TRUE,
          db |-> grant_subscription(d, user_id, subscription_days, subscription_price,
                                    by, payment_ref, t),
          ops |-> <<StoreOp("get_user"), StoreOp("grant_subscription")>>]

\* OSINTBot.grant_command
grant_command(u, args) ==
    /\ NoHandlerRunning
    /\ cur' = [user |-> u, cmd |-> "grant", args |-> args]
    /\ UNCHANGED now
    /\ IF ~is_admin(u) THEN db' = db /\ Finish(AccessDenied)
       ELSE IF args = <<>> THEN db' = db /\ Finish(<<Reply("usage", <<"grant">>)>>)
       ELSE IF ~IsIntText(args[1]) THEN db' = db /\ Finish(<<Reply("invalid_user_id", <<>>)>>)
       ELSE LET g == grant_user_subscription(
                        db, ParseInt(args[1]), u,
                        IF Len(args) > 1 THEN GivenRef(args[2]) ELSE AutoRef(now), now)
            IN  /\ db' = g.db
                /\ Finish(g.ops \o
                          <<IF g.success THEN Reply("granted", <<>>)
                            ELSE Reply("grant_failed", <<>>)>>)

\* OSINTBot.userinfo_command
userinfo_command(u, args) ==
    /\ NoHandlerRunning
    /\ cur' = [user |-> u, cmd |-> "userinfo", args |-> args]
    /\ UNCHANGED <<now, db>>
    /\ IF ~is_admin(u) THEN Finish(AccessDenied)
       ELSE IF args = <<>> THEN Finish(<<Reply("usage", <<"userinfo">>)>>)
       ELSE IF ~IsIntText(args[1]) THEN Finish(<<Reply("invalid_user_id", <<>>)>>)
       ELSE Finish(<<StoreOp("get_user_stats"), StoreOp("get_user"),
                     IF get_user(db, ParseInt(args[1])).exists
                     THEN Reply("user_info", <<>>) ELSE Reply("user_not_found", <<>>)>>)

\* OSINTBot.admin_command
admin_command(u, args) ==
    /\ NoHandlerRunning
    /\ cur' = [user |-> u, cmd |-> "admin", args |-> args]
    /\ UNCHANGED <<now, db>>
    /\ IF ~is_admin(u) THEN Finish(AccessDenied)
       ELSE Finish(<<Reply("admin_help", <<>>)>>)

\* The handler has returned, or has raised and error_handler has returned: the
\* application takes up the next update
HandlerReturns ==
    /\ pc \in {"done", "failed"}
    /\ pc' = "idle"
    /\ cur' = NoUpdate
    /\ trace' = <<>>
    /\ attempt' = 0
    /\ last' = NoOutcome
    /\ call' = NoCall
    /\ api_result' = NoResult
    /\ UNCHANGED <<now, db>>
    /\ UNCHANGED process

\* Time passes, at any point of a command or between commands
Tick ==
    /\ pc \in {"idle", "api", "backoff", "reply"}
    /\ \E t \in Instants : t > now /\ now' = t
    /\ UNCHANGED <<db, cur, pc, trace, attempt, last, call, api_result>>
    /\ UNCHANGED process

(***************************************************************************)
(* Start of the process                                                    *)
(***************************************************************************)
\* os.getenv(var): None for a variable that is not set
NotSet == [set |-> FALSE, text |-> <<>>]

SetTo(text) == [set |-> TRUE, text |-> text]

BotToken == <<"1", ":", "A">>

BotUsername == <<"r", "e", "o", "s", "i", "n", "t", "b", "o", "t">>

ApiUrl == <<"h", "t", "t", "p", "s", ":", "/", "/", "o", "s", "i", "n", "t", ".",
            "s", "t", "o", "r", "m", "x", ".", "p", "w", "/",
            "i", "n", "d", "e", "x", ".", "p", "h", "p">>

\* The same address without its scheme
ApiUrlNoScheme == SubSeq(ApiUrl, 9, Len(ApiUrl))

\* The environments the process may be started in
Envs ==
    [TELEGRAM_BOT_TOKEN : {NotSet, SetTo(<<>>), SetTo(BotToken)},
     BOT_USERNAME : {NotSet, SetTo(<<>>), SetTo(BotUsername)},
     OSINT_API_BASE_URL : {NotSet, SetTo(<<>>), SetTo(ApiUrl), SetTo(ApiUrlNoScheme)},
     OSINT_API_KEY : {NotSet, SetTo(<<>>), SetTo(api_key)}]

\* "not os.getenv(var)": not set, or set to the empty string
Missing(value) == ~value.set \/ value.text = <<>>

\* Mutant: only that the variable is set is tested
missing_vars_unset(e) ==
    {e.TELEGRAM_BOT_TOKEN, e.BOT_USERNAME, e.OSINT_API_BASE_URL, e.OSINT_API_KEY}
        \cap {NotSet}

\* validate_environment: the required variables that are missing
missing_vars(e) ==
    {v \in {e.TELEGRAM_BOT_TOKEN, e.BOT_USERNAME, e.OSINT_API_BASE_URL, e.OSINT_API_KEY} :
        Missing(v)}

\* validate_environment: the status of its sys.exit, Unset when it returns
validate_environment(e) ==
    IF missing_vars(e) # {} THEN 1
    ELSE IF ~IsUrl(e.OSINT_API_BASE_URL.text) THEN 1
    ELSE Unset

\* Import of the module, then main(): OSINTBot().run() registers the handlers and polls
main ==
    /\ pc = "boot"
    /\ exit_status' = validate_environment(env)
    /\ pc' = IF validate_environment(env) = Unset THEN "idle" ELSE "exited"
    /\ UNCHANGED <<now, db, cur, trace, attempt, last, call, api_result>>
    /\ UNCHANGED <<env, is_healthy, context_error, queue>>

(***************************************************************************)
(* Errors                                                                  *)
(***************************************************************************)
NoError == [raised |-> FALSE, text |-> <<>>]

\* An exception, by its str()
Error(text) == [raised |-> TRUE, text |-> text]

ConflictError == <<"C", "o", "n", "f", "l", "i", "c", "t", ":", " ", "t", "e", "r",
        "m", "i", "n", "a", "t", "e", "d", " ", "b", "y", " ", "o", "t", "h", "e", "r",
        " ", "g", "e", "t", "U", "p", "d", "a", "t", "e", "s", " ", "r", "e", "q", "u",
        "e", "s", "t">>

StatusConflict == <<"S", "t", "a", "t", "u", "s", " ", "4", "0", "9", " ", "C", "o",
        "n", "f", "l", "i", "c", "t">>

TimedOut == <<"T", "i", "m", "e", "d", " ", "o", "u", "t">>

DeleteNotFound == <<"M", "e", "s", "s", "a", "g", "e", " ", "t", "o", " ", "d", "e",
        "l", "e", "t", "e", " ", "n", "o", "t", " ", "f", "o", "u", "n", "d">>

\* The word error_handler looks for
Conflict == <<"C", "o", "n", "f", "l", "i", "c", "t">>

\* The exceptions a call to the platform raises
Errors == {Error(ConflictError), Error(StatusConflict), Error(TimedOut),
           Error(DeleteNotFound)}

\* Python's "sub in s" on strings
Contains(sub, s) ==
    \E i \in 1..(Len(s) - Len(sub) + 1) : SubSeq(s, i, i + Len(sub) - 1) = sub

\* A reply that was attempted and raised
ReplyFailed(what) == [kind |-> "reply_failed", what |-> what, val |-> <<>>,
                      info |-> NoOutcome]

\* An exception that leaves a function
Raises(what) == [kind |-> "raise", what |-> what, val |-> <<>>, info |-> NoOutcome]

\* The updates a failing call belongs to: none for the polling read, /help otherwise
ErrorUpdates == {NoUpdate} \cup {[user |-> u, cmd |-> "help", args |-> <<>>] : u \in UserIds}

\* A call to the platform raises: the polling read between updates (there is no update
\* then), or the one reply_text of help_command, which ends the handler without a
\* reply. The application hands the exception, and the update if there is one, to the
\* error handler run() registered.
Raise(update, error) ==
    /\ pc = "idle"
    /\ cur' = update
    /\ context_error' = error
    /\ pc' = "error"
    /\ UNCHANGED <<now, db, trace, attempt, last, call, api_result>>
    /\ UNCHANGED <<env, exit_status, is_healthy, queue>>

\* Mutant: the conflict branch does not return
error_handler_no_return ==
    /\ pc = "error"
    /\ is_healthy' = IF Contains(Conflict, context_error.text) THEN FALSE ELSE is_healthy
    /\ \E reply_ok \in BOOLEAN :
          trace' = trace \o
              (IF cur # NoUpdate
               THEN (IF reply_ok THEN <<Reply("generic_error", <<>>)>>
                     ELSE <<ReplyFailed("generic_error")>>)
               ELSE <<>>) \o
              (IF Missing(env.TELEGRAM_BOT_TOKEN) THEN <<Raises("ValueError")>> ELSE <<>>)
    /\ pc' = IF cur # NoUpdate THEN "failed" ELSE "idle"
    /\ context_error' = NoError
    /\ UNCHANGED <<now, db, cur, attempt, last, call, api_result>>
    /\ UNCHANGED <<env, exit_status, queue>>

\* OSINTBot.error_handler(update, context); cur is the update, NoUpdate for None.
\* When it has returned the application goes on: to the next update if it was
\* handling one, to polling otherwise.
error_handler ==
    /\ pc = "error"
    /\ IF Contains(Conflict, context_error.text)
       THEN /\ is_healthy' = FALSE
            /\ trace' = trace
       ELSE /\ is_healthy' = is_healthy
            /\ \E reply_ok \in BOOLEAN :
                  trace' = trace \o
                      (IF cur # NoUpdate
                       THEN (IF reply_ok THEN <<Reply("generic_error", <<>>)>>
                             ELSE <<ReplyFailed("generic_error")>>)
                       ELSE <<>>) \o
                      (IF Missing(env.TELEGRAM_BOT_TOKEN) THEN <<Raises("ValueError")>>
                       ELSE <<>>)
    /\ pc' = IF cur # NoUpdate THEN "failed" ELSE "idle"
    /\ context_error' = NoError
    /\ UNCHANGED <<now, db, cur, attempt, last, call, api_result>>
    /\ UNCHANGED <<env, exit_status, queue>>

(***************************************************************************)
(* The bot: updates are handled one at a time                              *)
(***************************************************************************)
Init ==
    /\ now = 0
    /\ db = [u \in UserIds |-> NoRow]
    /\ cur = NoUpdate
    /\ pc = "boot"
    /\ env \in Envs
    /\ exit_status = Unset
    /\ is_healthy = TRUE
    /\ context_error = NoError
    /\ queue = <<>>
    /\ trace = <<>>
    /\ attempt = 0
    /\ last = NoOutcome
    /\ call = NoCall
    /\ api_result = NoResult

\* An update arrives while the bot is idle and is taken up at once
Next ==
    \/ main
    \/ \E u \in UserIds, args \in NoArgs : start_command(u, args) /\ UNCHANGED process
    \/ \E u \in UserIds, args \in NoArgs : help_command(u, args) /\ UNCHANGED process
    \/ \E u \in UserIds, args \in OsintArgs : osint_command(u, args) /\ UNCHANGED process
    \/ \E u \in UserIds, args \in PhoneArgs : phone_command(u, args) /\ UNCHANGED process
    \/ \E u \in UserIds, args \in VehicleArgs : vehicle_command(u, args) /\ UNCHANGED process
    \/ \E u \in UserIds, args \in AadharArgs : aadhar_command(u, args) /\ UNCHANGED process
    \/ \E u \in UserIds, args \in UpiArgs : upi_command(u, args) /\ UNCHANGED process
    \/ \E u \in UserIds, args \in NoArgs : subscribe_command(u, args) /\ UNCHANGED process
    \/ \E u \in UserIds, args \in NoArgs : status_command(u, args) /\ UNCHANGED process
    \/ \E u \in UserIds, data \in CallbackData :
          callback_query_handler(u, data) /\ UNCHANGED process
    \/ \E u \in UserIds, cmd \in OtherCommands, args \in UnknownArgs :
          unknown_command(u, cmd, args) /\ UNCHANGED process
    \/ \E u \in UserIds, args \in GrantArgs : grant_command(u, args) /\ UNCHANGED process
    \/ \E u \in UserIds, args \in UserinfoArgs : userinfo_command(u, args) /\ UNCHANGED process
    \/ \E u \in UserIds, args \in AdminArgs : admin_command(u, args) /\ UNCHANGED process
    \/ ApiStep
    \/ Wake
    \/ FinishReply
    \/ HandlerReturns
    \/ \E update \in ErrorUpdates, error \in Errors : Raise(update, error)
    \/ error_handler
    \/ Tick

Spec == Init /\ [][Next]_vars

(***************************************************************************)
(* The bot with its pending updates: updates arrive at any time and wait   *)
(* until they are taken up, oldest first                                   *)
(***************************************************************************)
MaxQueue == 2

\* The updates that arrive
SchedUpdates ==
    {[user |-> Customer, cmd |-> "start", args |-> <<>>],
     [user |-> admin_id, cmd |-> "grant", args |-> <<T_customer>>],
     [user |-> Customer, cmd |-> "phone", args |-> <<Q_phone>>],
     [user |-> admin_id, cmd |-> "help", args |-> <<>>]}

\* A user sends a command: the update waits with the updates not yet taken up
Arrive(upd) ==
    /\ pc \notin {"boot", "exited"}
    /\ Len(queue) < MaxQueue
    /\ queue' = Append(queue, upd)
    /\ UNCHANGED <<now, db, cur, pc, trace, attempt, last, call, api_result>>
    /\ UNCHANGED <<env, exit_status, is_healthy, context_error>>

\* The handler run() registered for the update's command; a command without one goes to
\* the handler for unknown commands
Handle(upd) ==
    CASE upd.cmd = "start" -> start_command(upd.user, upd.args)
      [] upd.cmd = "help" -> help_command(upd.user, upd.args)
      [] upd.cmd = "osint" -> osint_command(upd.user, upd.args)
      [] upd.cmd = "phone" -> phone_command(upd.user, upd.args)
      [] upd.cmd = "vehicle" -> vehicle_command(upd.user, upd.args)
      [] upd.cmd = "aadhar" -> aadhar_command(upd.user, upd.args)
      [] upd.cmd = "upi" -> upi_command(upd.user, upd.args)
      [] upd.cmd = "subscribe" -> subscribe_command(upd.user, upd.args)
      [] upd.cmd = "status" -> status_command(upd.user, upd.args)
      [] upd.cmd = "grant" -> grant_command(upd.user, upd.args)
      [] upd.cmd = "userinfo" -> userinfo_command(upd.user, upd.args)
      [] upd.cmd = "admin" -> admin_command(upd.user, upd.args)
      [] OTHER -> unknown_command(upd.user, upd.cmd, upd.args)

\* The oldest pending update is taken up and its handler runs
process_update ==
    /\ queue # <<>>
    /\ Handle(Head(queue))
    /\ queue' = Tail(queue)
    /\ UNCHANGED <<env, exit_status, is_healthy, context_error>>

SchedNext ==
    \/ main
    \/ \E upd \in SchedUpdates : Arrive(upd)
    \/ process_update
    \/ ApiStep
    \/ Wake
    \/ FinishReply
    \/ HandlerReturns

SchedSpec == Init /\ [][SchedNext]_vars

(***************************************************************************)
(* The Subscription Manager's grant operation, called with every           *)
(* combination of arguments, next to its one caller in the bot, /grant     *)
(***************************************************************************)
\* The environment of a process that serves
ServingEnv ==
    [TELEGRAM_BOT_TOKEN |-> SetTo(BotToken), BOT_USERNAME |-> SetTo(BotUsername),
     OSINT_API_BASE_URL |-> SetTo(ApiUrl), OSINT_API_KEY |-> SetTo(api_key)]

\* The Stores the operation is called on: each user registered or not
ManagerInit ==
    /\ now \in Instants
    /\ db \in [UserIds -> {NoRow, NewRow}]
    /\ cur = NoUpdate
    /\ pc = "idle"
    /\ env = ServingEnv
    /\ exit_status = Unset
    /\ is_healthy = TRUE
    /\ context_error = NoError
    /\ queue = <<>>
    /\ trace = <<>>
    /\ attempt = 0
    /\ last = NoOutcome
    /\ call = NoCall
    /\ api_result = NoResult

\* The arguments of a call of grant_user_subscription
Called(user_id, by, payment_ref) ==
    [kind |-> "call", what |-> "grant_user_subscription",
     val |-> <<user_id, by, payment_ref>>, info |-> NoOutcome]

\* payment_ref: a reference, or None, the default of the parameter
PaymentRefs == {NoRef, GivenRef(T_ref)}

\* A call of SubscriptionManager.grant_user_subscription(user_id, admin_id, payment_ref)
call_grant_user_subscription(user_id, by, payment_ref) ==
    /\ NoHandlerRunning
    /\ cur' = [user |-> by, cmd |-> "grant_user_subscription", args |-> <<>>]
    /\ LET g == grant_user_subscription(db, user_id, by, payment_ref, now)
       IN  /\ db' = g.db
           /\ Finish(<<Called(user_id, by, payment_ref)>> \o g.ops)
    /\ UNCHANGED now
    /\ UNCHANGED process

ManagerNext ==
    \/ \E user_id \in UserIds, by \in UserIds, payment_ref \in PaymentRefs :
          call_grant_user_subscription(user_id, by, payment_ref)
    \/ \E u \in UserIds, args \in GrantArgs : grant_command(u, args) /\ UNCHANGED process
    \/ HandlerReturns

ManagerSpec == ManagerInit /\ [][ManagerNext]_vars

(***************************************************************************)
(* The classifier, OSINTBot.validate_input, applied to inputs of every     *)
(* shape the claims about it speak of                                      *)
(***************************************************************************)
\* The longest run of digits among the inputs
MaxDigits == 13

\* n times the digit d
Repeated(d, n) == [i \in 1..n |-> d]

\* The digits 1, 2, ..., 9, 0, 1, ... up to length n
Counting(n) == [i \in 1..n |-> Digits[(i % 10) + 1]]

\* Runs of digits of every length up to MaxDigits
DigitRuns ==
    {Repeated(d, n) : d \in {"0", "5", "9"}, n \in 1..MaxDigits} \cup
    {Counting(n) : n \in 1..MaxDigits}

\* What stands before the digits
Prefixes == {<<>>, <<"+", "9", "1">>, <<"+", "1">>, <<"9", "1", "+">>}

\* Whitespace around the input
Pads == {<<>>, <<" ">>, <<"\t", "\n">>}

Padded(texts) == {l \o t \o r : l \in Pads, t \in texts, r \in Pads}

NumericInputs == Padded({p \o run : p \in Prefixes, run \in DigitRuns})

Locals == {<<"u", "s", "e", "r">>, <<"a", ".", "b">>, <<"u", "_", "1", "-", "x">>}

Hosts == {<<"p", "a", "y", "t", "m">>,
          <<"e", "x", "a", "m", "p", "l", "e", ".", "c", "o", "m">>,
          <<"x", ".", "o", "r", "g">>,
          <<"y", ".", "n", "e", "t">>,
          <<"z", ".", "e", "d", "u">>,
          <<"w", ".", "g", "o", "v">>,
          <<"e", "x", "a", "m", "p", "l", "e", ".", "C", "O", "M">>,
          <<"c", "o", "m">>,
          <<"e", "x", "a", "m", "p", "l", "e", ".", "c", "o", "m", ".">>,
          <<"a", ".", "c", "o", "m", "x">>,
          <<"y", "b", "l">>,
          <<"e", "x", "a", "m", "p", "l", "e", ".", "c", "o">>}

\* handle@host, and texts with an @ that are no such pair
HandleInputs ==
    Padded({local \o <<"@">> \o host : local \in Locals, host \in Hosts} \cup
           {<<"a", "@", "b", "@", "c">>,
            <<"@", "p", "a", "y", "t", "m">>,
            <<"u", "s", "e", "r", "@">>,
            <<"u", "s", " ", "e", "r", "@", "p", "a", "y", "t", "m">>,
            <<"u", "s", "e", "r", "@", "p", "a", "y", "_", "t", "m", ".", "c", "o", "m">>})

\* Plates as users type them, and a text that is nearly one
PlateInputs ==
    Padded({<<"j", "k", "0", "5", "f", "1", "8", "0", "6">>, <<"J", "k", "0", "5", "F", "1", "8", "0", "6">>, <<"d", "l", "1", "c", "a", "b", "1", "2", "3", "4">>,
            <<"k", "a", "0", "1", "a", "b", "1", "2", "3", "4">>})

ClassifierInputs ==
    NumericInputs \cup HandleInputs \cup PlateInputs \cup
    {<<>>, Q_plate, Q_ip, Q_domain, Q_url, Q_bad, <<"a", "b">>}

\* validation_result: the type ("none" when not valid) and the value
Classified(v) == [kind |-> "classified", what |-> v.type, val |-> v.value, info |-> NoOutcome]

\* A call of validate_input(query)
call_validate_input(query) ==
    /\ NoHandlerRunning
    /\ cur' = [user |-> 0, cmd |-> "validate_input", args |-> <<query>>]
    /\ Finish(<<Classified(validate_input(query))>>)
    /\ UNCHANGED <<now, db>>
    /\ UNCHANGED process

ClassifierInit ==
    /\ now = 0
    /\ db = [u \in UserIds |-> NoRow]
    /\ cur = NoUpdate
    /\ pc = "idle"
    /\ env = ServingEnv
    /\ exit_status = Unset
    /\ is_healthy = TRUE
    /\ context_error = NoError
    /\ queue = <<>>
    /\ trace = <<>>
    /\ attempt = 0
    /\ last = NoOutcome
    /\ call = NoCall
    /\ api_result = NoResult

ClassifierNext ==
    \/ \E query \in ClassifierInputs : call_validate_input(query)
    \/ HandlerReturns

ClassifierSpec == ClassifierInit /\ [][ClassifierNext]_vars

(***************************************************************************)
(* The response formatter, OSINTBot.format_osint_response                  *)
(***************************************************************************)
\* A value as response.json() returns it: a string, an integer, a boolean, null, a list
\* or a mapping, whose keys and items run in parallel in insertion order
Value(tag, text, num, keys, items) ==
    [tag |-> tag, text |-> text, num |-> num, keys |-> keys, items |-> items]

Str(text) == Value("str", text, 0, <<>>, <<>>)
Num(n) == Value("int", <<>>, n, <<>>, <<>>)
Bool(b) == Value("bool", <<>>, IF b THEN 1 ELSE 0, <<>>, <<>>)
Null == Value("null", <<>>, 0, <<>>, <<>>)
List(items) == Value("list", <<>>, 0, <<>>, items)
Dict(keys, items) == Value("dict", <<>>, 0, keys, items)

K_data == <<"d", "a", "t", "a">>
K_message == <<"m", "e", "s", "s", "a", "g", "e">>
K_timestamp == <<"t", "i", "m", "e", "s", "t", "a", "m", "p">>

\* isinstance(data, dict)
IsDict(v) == v.tag = "dict"

\* key in data
HasKey(d, key) == \E i \in DOMAIN d.keys : d.keys[i] = key

\* data[key]
Get(d, key) == d.items[CHOOSE i \in DOMAIN d.keys : d.keys[i] = key]

\* bool(value): Python's truth of a value
Truthy(v) ==
    CASE v.tag = "str" -> v.text # <<>>
      [] v.tag \in {"int", "bool"} -> v.num # 0
      [] v.tag = "null" -> FALSE
      [] OTHER -> v.items # <<>>

\* str(n) of a natural number
RECURSIVE DecimalText(_)
DecimalText(n) ==
    IF n < 10 THEN <<Digits[n + 1]>>
    ELSE DecimalText(n \div 10) \o <<Digits[(n % 10) + 1]>>

\* repr(value), for texts without quotes or backslashes
RECURSIVE PyRepr(_)
RECURSIVE ReprItems(_, _)
PyRepr(v) ==
    CASE v.tag = "str" -> <<"'">> \o v.text \o <<"'">>
      [] v.tag = "int" -> DecimalText(v.num)
      [] v.tag = "bool" -> IF v.num = 1 THEN <<"T", "r", "u", "e">> ELSE <<"F", "a", "l", "s", "e">>
      [] v.tag = "null" -> <<"N", "o", "n", "e">>
      [] v.tag = "list" -> <<"[">> \o ReprItems(v, 1) \o <<"]">>
      [] OTHER -> <<"{">> \o ReprItems(v, 1) \o <<"}">>

\* The items of a list or mapping from the i-th on, joined with ", "
ReprItems(v, i) ==
    IF i > Len(v.items) THEN <<>>
    ELSE (IF i > 1 THEN <<",", " ">> ELSE <<>>)
         \o (IF v.tag = "dict" THEN <<"'">> \o v.keys[i] \o <<"'", ":", " ">> ELSE <<>>)
         \o PyRepr(v.items[i]) \o ReprItems(v, i + 1)

\* str(value), f"{value}"
PyStr(v) == IF v.tag = "str" THEN v.text ELSE PyRepr(v)

\* The elements a for loop over the value visits; len(value) raises for the other values
HasLen(v) == v.tag \in {"str", "list", "dict"}

Elements(v) ==
    CASE v.tag = "list" -> v.items
      [] v.tag = "dict" -> [i \in DOMAIN v.keys |-> Str(v.keys[i])]
      [] OTHER -> [i \in DOMAIN v.text |-> Str(<<v.text[i]>>)]

LowerChar(c) == IF IsUpper(c) THEN LowerLetters[IndexOf(UpperLetters, c)] ELSE c

\* key.replace('_', ' ').title()
formatted_key(key) ==
    [i \in DOMAIN key |->
        LET c == IF key[i] = "_" THEN " " ELSE key[i]
            prev == IF i = 1 THEN " " ELSE key[i - 1]
        IN  IF IsAlpha(prev) THEN LowerChar(c) ELSE UpperChar(c)]

\* field_mappings of the data-array branch (the icon of each label left out)
field_mappings == {
    [key |-> <<"n", "a", "m", "e">>, label |-> "Name"],
    [key |-> <<"f", "n", "a", "m", "e">>, label |-> "Full Name"],
    [key |-> <<"m", "o", "b", "i", "l", "e">>, label |-> "Mobile"],
    [key |-> <<"p", "h", "o", "n", "e">>, label |-> "Phone"],
    [key |-> <<"a", "d", "d", "r", "e", "s", "s">>, label |-> "Address"],
    [key |-> <<"c", "i", "r", "c", "l", "e">>, label |-> "Circle"],
    [key |-> <<"i", "d">>, label |-> "ID"],
    [key |-> <<"e", "m", "a", "i", "l">>, label |-> "Email"],
    [key |-> <<"l", "o", "c", "a", "t", "i", "o", "n">>, label |-> "Location"],
    [key |-> <<"s", "t", "a", "t", "e">>, label |-> "State"],
    [key |-> <<"c", "i", "t", "y">>, label |-> "City"],
    [key |-> <<"p", "i", "n", "c", "o", "d", "e">>, label |-> "Pincode"],
    [key |-> <<"o", "w", "n", "e", "r">>, label |-> "Owner"],
    [key |-> <<"v", "e", "h", "i", "c", "l", "e", "_", "n", "u", "m", "b", "e", "r">>, label |-> "Vehicle Number"],
    [key |-> <<"v", "e", "h", "i", "c", "l", "e", "_", "t", "y", "p", "e">>, label |-> "Vehicle Type"],
    [key |-> <<"r", "e", "g", "i", "s", "t", "r", "a", "t", "i", "o", "n", "_", "d", "a", "t", "e">>, label |-> "Registration Date"],
    [key |-> <<"b", "a", "n", "k">>, label |-> "Bank"],
    [key |-> <<"a", "c", "c", "o", "u", "n", "t", "_", "t", "y", "p", "e">>, label |-> "Account Type"],
    [key |-> <<"b", "r", "a", "n", "c", "h">>, label |-> "Branch"],
    [key |-> <<"i", "f", "s", "c">>, label |-> "IFSC Code"],
    [key |-> <<"a", "g", "e">>, label |-> "Age"],
    [key |-> <<"g", "e", "n", "d", "e", "r">>, label |-> "Gender"],
    [key |-> <<"d", "o", "b">>, label |-> "Date of Birth"],
    [key |-> <<"f", "a", "t", "h", "e", "r", "_", "n", "a", "m", "e">>, label |-> "Father Name"],
    [key |-> <<"m", "o", "t", "h", "e", "r", "_", "n", "a", "m", "e">>, label |-> "Mother Name"],
    [key |-> <<"s", "t", "a", "t", "u", "s">>, label |-> "Status"],
    [key |-> <<"r", "e", "g", "i", "s", "t", "e", "r", "e", "d">>, label |-> "Registered"],
    [key |-> <<"v", "e", "r", "i", "f", "i", "e", "d">>, label |-> "Verified"],
    [key |-> <<"a", "c", "t", "i", "v", "e">>, label |-> "Active"]}

\* field_mappings of the general branch
general_field_mappings == {
    [key |-> <<"n", "a", "m", "e">>, label |-> "Name"],
    [key |-> <<"p", "h", "o", "n", "e">>, label |-> "Phone"],
    [key |-> <<"a", "d", "d", "r", "e", "s", "s">>, label |-> "Address"],
    [key |-> <<"e", "m", "a", "i", "l">>, label |-> "Email"],
    [key |-> <<"l", "o", "c", "a", "t", "i", "o", "n">>, label |-> "Location"],
    [key |-> <<"s", "t", "a", "t", "e">>, label |-> "State"],
    [key |-> <<"c", "i", "t", "y">>, label |-> "City"],
    [key |-> <<"p", "i", "n", "c", "o", "d", "e">>, label |-> "Pincode"],
    [key |-> <<"o", "w", "n", "e", "r">>, label |-> "Owner"],
    [key |-> <<"v", "e", "h", "i", "c", "l", "e", "_", "n", "u", "m", "b", "e", "r">>, label |-> "Vehicle Number"],
    [key |-> <<"v", "e", "h", "i", "c", "l", "e", "_", "t", "y", "p", "e">>, label |-> "Vehicle Type"],
    [key |-> <<"r", "e", "g", "i", "s", "t", "r", "a", "t", "i", "o", "n", "_", "d", "a", "t", "e">>, label |-> "Registration Date"],
    [key |-> <<"b", "a", "n", "k">>, label |-> "Bank"],
    [key |-> <<"a", "c", "c", "o", "u", "n", "t", "_", "t", "y", "p", "e">>, label |-> "Account Type"],
    [key |-> <<"b", "r", "a", "n", "c", "h">>, label |-> "Branch"],
    [key |-> <<"i", "f", "s", "c">>, label |-> "IFSC Code"],
    [key |-> <<"a", "g", "e">>, label |-> "Age"],
    [key |-> <<"g", "e", "n", "d", "e", "r">>, label |-> "Gender"],
    [key |-> <<"d", "o", "b">>, label |-> "Date of Birth"],
    [key |-> <<"f", "a", "t", "h", "e", "r", "_", "n", "a", "m", "e">>, label |-> "Father Name"],
    [key |-> <<"m", "o", "t", "h", "e", "r", "_", "n", "a", "m", "e">>, label |-> "Mother Name"],
    [key |-> <<"s", "t", "a", "t", "u", "s">>, label |-> "Status"],
    [key |-> <<"r", "e", "g", "i", "s", "t", "e", "r", "e", "d">>, label |-> "Registered"],
    [key |-> <<"v", "e", "r", "i", "f", "i", "e", "d">>, label |-> "Verified"],
    [key |-> <<"a", "c", "t", "i", "v", "e">>, label |-> "Active"]}

Mapped(table, key) == \E e \in table : e.key = key

LabelOf(table, key) == (CHOOSE e \in table : e.key = key).label

\* One line of the message
Line(kind, label, key, text) == [kind |-> kind, label |-> label, key |-> key, text |-> text]

Blank == Line("blank", "", <<>>, <<>>)

\* The icon of the heading
icon(query_type) ==
    CASE query_type = "phone" -> "mobile_phone"
      [] query_type = "vehicle" -> "car"
      [] query_type = "aadhaar" -> "id"
      [] query_type = "upi" -> "card"
      [] OTHER -> "magnifier"

\* query_type.upper()
TypeLabel(query_type) ==
    CASE query_type = "phone" -> "PHONE"
      [] query_type = "vehicle" -> "VEHICLE"
      [] query_type = "aadhaar" -> "AADHAAR"
      [] query_type = "upi" -> "UPI"
      [] query_type = "email" -> "EMAIL"
      [] query_type = "ip" -> "IP"
      [] query_type = "domain" -> "DOMAIN"
      [] query_type = "url" -> "URL"
      [] query_type = "username" -> "USERNAME"

\* The heading: the query, the query type, an empty line
Heading(query, query_type) ==
    <<Line("results_for", icon(query_type), <<>>, query),
      Line("query_type", TypeLabel(query_type), <<>>, <<>>),
      Blank>>

\* if value and str(value).strip()
Shown(value) == Truthy(value) /\ Strip(PyStr(value)) # <<>>

\* The line of one field
FieldLine(table, key, value) ==
    IF Mapped(table, key)
    THEN Line("field", LabelOf(table, key), key, PyStr(value))
    ELSE Line("unknown_field", "", formatted_key(key), PyStr(value))

\* for key, value in record.items(): the lines of the fields from the i-th on
RECURSIVE FieldLines(_, _, _)
FieldLines(table, record, i) ==
    IF i > Len(record.keys) THEN <<>>
    ELSE (IF Shown(record.items[i])
          THEN <<FieldLine(table, record.keys[i], record.items[i])>>
          ELSE <<>>)
         \o FieldLines(table, record, i + 1)

\* What a part of the try block has added to the message, and whether it raised
Rendered(lines, raised) == [lines |-> lines, raised |-> raised]

\* if len(data_array) > 1: the header of the i-th record
RecordHeader(data_array, i) ==
    IF Len(data_array) > 1 THEN <<Line("record", "", <<>>, DecimalText(i))>> ELSE <<>>

\* for i, record in enumerate(data_array, 1): the records from the i-th on
RECURSIVE RecordLines(_, _)
RecordLines(data_array, i) ==
    IF i > Len(data_array) THEN Rendered(<<>>, FALSE)
    ELSE IF ~IsDict(data_array[i])
    THEN Rendered(RecordHeader(data_array, i), TRUE)
    ELSE LET rest == RecordLines(data_array, i + 1)
         IN  Rendered(RecordHeader(data_array, i)
                      \o FieldLines(field_mappings, data_array[i], 1)
                      \o (IF i < Len(data_array) THEN <<Blank>> ELSE <<>>)
                      \o rest.lines,
                      rest.raised)

NoDataFound == Line("no_data_found", "", <<>>, <<>>)

\* Mutant: the text of the payload as repr gives it
DataLine_repr(data) == Line("data", "", <<>>, PyRepr(data))

\* message += f"**Data:** {data}\n"
DataLine(data) == Line("data", "", <<>>, PyStr(data))

\* The body of the try block up to the footer
Body(data) ==
    IF IsDict(data)
    THEN IF HasKey(data, K_data) /\ Truthy(Get(data, K_data))
         THEN IF HasLen(Get(data, K_data))
              THEN RecordLines(Elements(Get(data, K_data)), 1)
              ELSE Rendered(<<>>, TRUE)
         ELSE IF HasKey(data, K_message)
         THEN Rendered(<<Line("message", "", <<>>, PyStr(Get(data, K_message)))>>, FALSE)
         ELSE LET lines == FieldLines(general_field_mappings, data, 1)
              IN  Rendered(IF lines = <<>> THEN <<NoDataFound>> ELSE lines, FALSE)
    ELSE Rendered(<<DataLine(data)>>, FALSE)

JustNow == <<"J", "u", "s", "t", " ", "n", "o", "w">>

\* message += f"\n... **Queried:** {data.get('timestamp', 'Just now')}"; a value that is
\* not a mapping has no get
Footer(data) ==
    IF IsDict(data)
    THEN Rendered(<<Blank,
                    Line("queried", "", <<>>,
                         IF HasKey(data, K_timestamp) THEN PyStr(Get(data, K_timestamp))
                         ELSE JustNow)>>, FALSE)
    ELSE Rendered(<<>>, TRUE)

raw_limit == 800

Take(text, n) == SubSeq(text, 1, IF Len(text) < n THEN Len(text) ELSE n)

\* The except branch: the raw dump
RawDump(data) ==
    <<Line("raw_api_response", "", <<>>, <<>>),
      Line("raw", "", <<>>, Take(PyStr(data), raw_limit) \o <<".", ".", ".">>)>>

\* format_osint_response(query, data, query_type): the lines of the message it returns
format_osint_response(query, data, query_type) ==
    LET body == Body(data)
        footer == Footer(data)
    IN  Heading(query, query_type)
        \o body.lines
        \o (IF body.raised THEN RawDump(data)
            ELSE IF footer.raised THEN RawDump(data)
            ELSE footer.lines)

(***************************************************************************)
(* The formatter applied to payloads of every shape the claims about it    *)
(* speak of                                                                *)
(***************************************************************************)
\* The most fields in a generated record, the most records in a generated list
MaxFields == 2
MaxRecords == 2

K_name == <<"n", "a", "m", "e">>
K_notes == <<"n", "o", "t", "e", "s">>
K_upi_handle == <<"u", "p", "i", "_", "h", "a", "n", "d", "l", "e">>
K_active == <<"a", "c", "t", "i", "v", "e">>

FieldKeys == <<K_name, K_notes, K_upi_handle, K_active>>

KeyLists ==
    {SubSeq(FieldKeys, i, j) : <<i, j>> \in
        {<<i, j>> \in (DOMAIN FieldKeys) \X (DOMAIN FieldKeys) : i <= j /\ j - i < MaxFields}}

V_alice == Str(<<"A", "l", "i", "c", "e">>)
V_stamp == Str(<<"2", "0", "2", "4", "-", "0", "1", "-", "0", "1">>)

FieldValues ==
    {V_alice, Str(<<>>), Str(<<" ">>), Num(0), Num(7), Bool(FALSE), Bool(TRUE), Null,
     List(<<>>)}

\* Mappings of up to MaxFields fields
Records ==
    UNION {{Dict(keys, items) : items \in [DOMAIN keys -> FieldValues]} : keys \in KeyLists}

R_alice == Dict(<<K_name, K_notes>>, <<V_alice, Str(<<>>)>>)
R_handle == Dict(<<K_upi_handle>>, <<Str(Q_upi)>>)

\* Lists of two to MaxRecords records, one of them not a mapping
RecordLists ==
    UNION {[1..n -> {R_alice, R_handle, Str(<<"x">>)}] : n \in 2..MaxRecords}

DataLists == {<<r>> : r \in Records} \cup RecordLists \cup {<<>>}

WithData(list) == Dict(<<K_data>>, <<List(list)>>)

Stamped(d) == Dict(d.keys \o <<K_timestamp>>, d.items \o <<V_stamp>>)

Mappings ==
    {WithData(list) : list \in DataLists} \cup Records \cup
    {Dict(<<>>, <<>>),
     Dict(<<K_message>>, <<Str(PaddedTextBody)>>),
     Dict(<<K_data>>, <<R_alice>>),
     Dict(<<K_data>>, <<Num(7)>>),
     Dict(<<K_data>>, <<Str(<<"x">>)>>),
     Dict(<<K_data, K_message>>, <<List(<<>>), Str(PaddedTextBody)>>)}

\* Payloads that are no mapping
PlainPayloads ==
    {Str(PaddedTextBody), Str(<<>>), Num(7), Num(0), Bool(TRUE), Null, List(<<>>), List(<<R_alice>>)}

Payloads ==
    Mappings \cup {Stamped(d) : d \in {WithData(list) : list \in RecordLists} \cup
                                      {WithData(<<R_alice>>), R_alice, Dict(<<>>, <<>>)}}
             \cup PlainPayloads

\* What format_osint_response was given and what it returned
Formatted(query_type, data, lines) ==
    [kind |-> "formatted", what |-> query_type, val |-> lines, info |-> data]

\* A call of format_osint_response(query, data, query_type)
call_format_osint_response(query, data, query_type) ==
    /\ NoHandlerRunning
    /\ cur' = [user |-> 0, cmd |-> "format_osint_response", args |-> <<query>>]
    /\ Finish(<<Formatted(query_type, data, format_osint_response(query, data, query_type))>>)
    /\ UNCHANGED <<now, db>>
    /\ UNCHANGED process

FormatterNext ==
    \/ \E data \in Payloads, query_type \in {"phone", "username"} :
           call_format_osint_response(Q_phone, data, query_type)
    \/ HandlerReturns

FormatterSpec == ClassifierInit /\ [][FormatterNext]_vars

(***************************************************************************)
(* /aadhar with the Aadhaar number written in groups, as the help text and *)
(* the usage text of the command invite                                    *)
(***************************************************************************)
\* 1234 5678 9012: three arguments, which the handler joins with spaces
Q_aadhaar_spaced == <<<<"1", "2", "3", "4">>, <<"5", "6", "7", "8">>, <<"9", "0", "1", "2">>>>

\* 1234-5678-9012
Q_aadhaar_hyphens ==
    <<"1", "2", "3", "4", "-", "5", "6", "7", "8", "-", "9", "0", "1", "2">>

GroupedAadharArgs == {Q_aadhaar_spaced, <<Q_aadhaar_hyphens>>}

AadharNext ==
    \/ \E u \in UserIds, args \in AadharArgs \cup GroupedAadharArgs :
           aadhar_command(u, args) /\ UNCHANGED process
    \/ \E args \in {<<T_customer>>} : grant_command(admin_id, args) /\ UNCHANGED process
    \/ ApiStep
    \/ Wake
    \/ FinishReply
    \/ HandlerReturns

AadharSpec == ManagerInit /\ [][AadharNext]_vars

(***************************************************************************)
(* The commands of the admin help text, sent to the bot                    *)
(***************************************************************************)
\* The commands send_admin_help enumerates
AdminHelpCommands == {"grant", "revoke", "userinfo", "stats"}

AdminHelpUpdates ==
    {[user |-> u, cmd |-> cmd, args |-> args] :
        u \in UserIds, cmd \in AdminHelpCommands \cup {"admin"},
        args \in {<<>>, <<T_customer>>}}

\* The application takes an update and runs the handler registered for it
dispatch(upd) == Handle(upd) /\ UNCHANGED process

AdminNext ==
    \/ \E upd \in AdminHelpUpdates : dispatch(upd)
    \/ HandlerReturns

AdminSpec == ManagerInit /\ [][AdminNext]_vars

(***************************************************************************)
(* Reading a trace                                                         *)
(***************************************************************************)
EventsOf(tr, kind) == SelectSeq(tr, LAMBDA e : e.kind = kind)

Replies(tr) == EventsOf(tr, "reply")

Https(tr) == EventsOf(tr, "http")

Sleeps(tr) == EventsOf(tr, "sleep")

StoreOps(tr) == EventsOf(tr, "store")

Whats(evs) == [i \in DOMAIN evs |-> evs[i].what]

GatedCmds == {"osint", "phone", "vehicle", "aadhar", "upi"}

TypeCmds == {"phone", "vehicle", "aadhar", "upi"}

AdminCmds == {"grant", "userinfo", "admin"}

\* The handler of cur has run to its end
Done == pc = "done"

\* This step is the dispatch of the update cur' (from idle, only time passes otherwise)
Dispatches(cmds) == pc = "idle" /\ cur'.cmd \in cmds

(***************************************************************************)
(* Claims                                                                  *)
(***************************************************************************)
\* C1: a gated command (/osint, /phone, /vehicle, /aadhar, /upi) from a caller who is
\* not subscribed when the access check runs, with or without arguments, upserts the
\* caller, sends the subscription-required message as its only reply and ends: no
\* classification reply, status message, typing indicator or upstream request.
C1_GateRejects ==
    [][(Dispatches(GatedCmds) /\ ~is_user_subscribed(db, cur'.user, now))
        => /\ db'[cur'.user].exists
           /\ pc' = "done"
           /\ Whats(Replies(trace')) = <<"subscription_required">>
           /\ Https(trace') = <<>>
           /\ EventsOf(trace', "chat_action") = <<>>
           /\ ~api_result'.returned]_vars

\* C1 witness: an expired caller sent a gated command with an argument and was rejected
C1_Witness ==
    /\ Done
    /\ cur.cmd = "upi" /\ cur.args = <<Q_upi>>
    /\ subscription_status(db, cur.user, now) = "expired"
    /\ Replies(trace) = <<Reply("subscription_required", <<"expired">>)>>

\* C2: one invocation of call_osint_api issues at most 3 HTTP GETs, whatever the
\* attempts end in.
C2_AtMostThreeAttempts == Len(Https(trace)) <= 3

\* C2 witness: an invocation that returned after three GETs
C2_Witness == api_result.returned /\ Len(Https(trace)) = 3

\* An attempt outcome the retry policy names: 429, a status >= 500, or an exception
Retryable(o) == o.exc # "none" \/ o.code = 429 \/ o.code >= 500

\* The failure message the claim gives each retryable outcome
Category(o) ==
    CASE o.exc = "ConnectTimeout" -> "connection timeout"
      [] o.exc = "ReadTimeout" -> "request timeout"
      [] o.exc = "ConnectionError" -> "unable to connect"
      [] o.exc = "Exception" -> "unexpected error"
      [] o.exc = "none" /\ o.code = 429 -> "rate limit exceeded"
      [] OTHER -> "server error"

Attempted == Len(Https(trace)) >= 1

\* C3: in one invocation for a supported type, a retryable outcome (429, >= 500, a
\* timeout, a connection error, any other exception) after fewer than 3 attempts leaves
\* the invocation in its loop, whose next steps are the end of the backoff sleep and a
\* further GET; a 200 ends it in
\* success whatever came before; a retryable outcome ends it only as the third
\* attempt, in the failure of that outcome's category (a server error with its status).
C3_RetryThenResult ==
    /\ [](Attempted =>
            /\ (Retryable(last) /\ Len(Https(trace)) < 3)
                  => (pc \in {"backoff", "api"} /\ ~api_result.returned)
            /\ (api_result.returned /\ last = Status(200, last.json)) => api_result.success
            /\ (api_result.returned /\ Retryable(last)) =>
                  /\ Len(Https(trace)) = 3
                  /\ ~api_result.success
                  /\ api_result.error = Category(last)
                  /\ (last.code >= 500 => api_result.status = last.code))
    /\ [][(pc = "backoff" /\ now' = now) => (pc' = "api" /\ trace' = trace)]_vars
    /\ [][(pc = "api" /\ now' = now) => Len(Https(trace')) = Len(Https(trace)) + 1]_vars

\* C3 witness: 429 on the second and on the third attempt: rate limit exceeded
C3_Witness ==
    /\ api_result = Failure("rate limit exceeded", 429)
    /\ Sleeps(trace) = <<Sleep(1), Sleep(2)>>
    /\ Len(Https(trace)) = 3

\* C4: an attempt that receives 200, 404, 401 or any other status that is neither 429
\* nor >= 500 ends the invocation at that attempt: no further GET, no backoff sleep
\* after it; 200 gives success, 404 the service-unavailable failure, 401 the
\* authentication failure, any other such status the service-error failure with the
\* status.
C4_NoRetryOnFinalStatus ==
    (Attempted /\ last.exc = "none" /\ last.code # 429 /\ last.code < 500) =>
        /\ pc \notin {"api", "backoff"}
        /\ api_result.returned
        /\ Len(Sleeps(trace)) = Len(Https(trace)) - 1
        /\ api_result =
              CASE last.code = 200 -> Success(IF last.json THEN "json" ELSE "raw_response",
                                              api_result.payload)
                [] last.code = 404 -> Failure("service unavailable", 404)
                [] last.code = 401 -> Failure("authentication failed", 401)
                [] OTHER -> Failure("service error", last.code)

\* C4 witness: a 403 on the second attempt ended the invocation
C4_Witness ==
    /\ Done
    /\ last = Status(403, FALSE)
    /\ Len(Https(trace)) = 2
    /\ api_result = Failure("service error", 403)

UnsupportedTypes == {"email", "ip", "domain", "url", "username"}

ExpectedType(cmd) ==
    CASE cmd = "phone" -> "phone"
      [] cmd = "vehicle" -> "vehicle"
      [] cmd = "aadhar" -> "aadhaar"
      [] cmd = "upi" -> "upi"

\* The update's input is invalid or of another type than its command expects
Mismatched(upd) ==
    \/ ~validate_input(JoinArgs(upd.args)).valid
    \/ validate_input(JoinArgs(upd.args)).type # ExpectedType(upd.cmd)

\* C6: /phone, /vehicle, /aadhar or /upi from a subscribed user with an input that is
\* invalid or whose detected type differs from the command's replies with one
\* rejection and ends: no status message, no typing indicator, no upstream request.
C6_MismatchRejected ==
    [][(/\ Dispatches(TypeCmds)
        /\ cur'.args # <<>>
        /\ is_user_subscribed(db, cur'.user, now)
        /\ Mismatched(cur'))
        => /\ pc' = "done"
           /\ Len(Replies(trace')) = 1
           /\ Replies(trace')[1].what \in {"type_mismatch", "invalid_format"}
           /\ Https(trace') = <<>>
           /\ EventsOf(trace', "chat_action") = <<>>
           /\ ~api_result'.returned]_vars

\* C6 witness: /vehicle with a 10-digit number was rejected as a phone
C6_Witness ==
    /\ Done
    /\ cur.cmd = "vehicle" /\ cur.args = <<Q_phone>>
    /\ Replies(trace) = <<Reply("type_mismatch", <<"phone">>)>>
    /\ Https(trace) = <<>>

\* The value has the shape the upstream expects for the parameter
ShapeOf(name, value) ==
    CASE name = "number" -> Len(value) = 10 /\ All(value, DigitSet)
      [] name = "aadhaar" -> Len(value) = 12 /\ All(value, DigitSet)
      [] name = "vehicle" -> MatchesVehicle(value)
      [] name = "upi" -> MatchesHandleAtDomain(value)
      [] OTHER -> FALSE

\* C7: every upstream request carries key=<api key> and exactly one type parameter
\* among number, vehicle, aadhaar, upi, whose value is the classifier's normalized value
\* for the input and has the parameter's shape (number: 10 digits, never a +91 prefix);
\* a per-type command whose first attempt returns 200 makes exactly one request.
C7_RequestParameters ==
    /\ \A i \in DOMAIN Https(trace) :
          LET params == Https(trace)[i].val
          IN  /\ <<"key", <<"d", "a", "r", "k">>>> \in params
              /\ Cardinality(params) = 2
              /\ \A p \in params \ {<<"key", <<"d", "a", "r", "k">>>>} :
                    /\ ShapeOf(p[1], p[2])
                    /\ p[2] = validate_input(JoinArgs(cur.args)).value
    /\ (cur.cmd \in TypeCmds /\ api_result.returned /\ attempt = 0 /\ last.code = 200)
          => Len(Https(trace)) = 1

\* C7 witness: /phone +919177075666 made one request, number=9177075666
C7_Witness ==
    /\ Done
    /\ cur.cmd = "phone" /\ cur.args = <<Q_plus91>>
    /\ api_result.success
    /\ Https(trace) = <<Http({<<"key", api_key>>, <<"number", Q_phone>>})>>

\* C8: is_admin holds for the configured admin identity only; /grant, /userinfo and
\* /admin from any other caller reply with the same access-denied message whatever
\* the arguments, with no Store call and the Store unchanged.
C8_AdminGate ==
    /\ [](\A u \in UserIds \cup {0} : is_admin(u) => u = admin_id)
    /\ [][(Dispatches(AdminCmds) /\ cur'.user # admin_id)
            => /\ trace' = <<Reply("access_denied", <<>>)>>
               /\ db' = db
               /\ pc' = "done"]_vars

\* C8 witness: the customer tried to grant themselves a subscription
C8_Witness ==
    /\ Done
    /\ cur = [user |-> Customer, cmd |-> "grant", args |-> <<T_customer>>]
    /\ db[Customer].exists
    /\ trace = <<Reply("access_denied", <<>>)>>

\* C9: a grant to a target id with no Store record returns false and leaves the Store
\* unchanged, and /grant replies that the user must interact first; /grant with a
\* non-numeric target is rejected with the Store unchanged.
C9_GrantUnknownUser ==
    /\ [](\A id \in UserIds \cup {ParseInt(T_unknown)} :
            ~get_user(db, id).exists =>
                /\ ~grant_user_subscription(db, id, admin_id, AutoRef(now), now).success
                /\ grant_user_subscription(db, id, admin_id, AutoRef(now), now).db = db)
    /\ [][(Dispatches({"grant"}) /\ cur'.user = admin_id /\ cur'.args # <<>>)
            => IF ~IsIntText(cur'.args[1])
               THEN db' = db /\ Replies(trace') = <<Reply("invalid_user_id", <<>>)>>
               ELSE ~get_user(db, ParseInt(cur'.args[1])).exists
                       => db' = db /\ Replies(trace') = <<Reply("grant_failed", <<>>)>>]_vars

\* C9 witness: the admin granted to the customer before the customer's first update
C9_Witness ==
    /\ Done
    /\ cur = [user |-> admin_id, cmd |-> "grant", args |-> <<T_customer>>]
    /\ ~db[Customer].exists
    /\ Replies(trace) = <<Reply("grant_failed", <<>>)>>

\* C10: a grant by the admin to a user with a Store record sets subscription_start =
\* now, subscription_end = now + 21 days and payment_amount = 399 whatever the user's
\* state before (the window is replaced, not extended); right after it the user is
\* subscribed and passes the access check of every gated command.
C10_GrantSetsWindow ==
    [][(/\ Dispatches({"grant"})
        /\ cur'.user = admin_id
        /\ cur'.args # <<>>
        /\ IsIntText(cur'.args[1])
        /\ get_user(db, ParseInt(cur'.args[1])).exists)
        => LET target == ParseInt(cur'.args[1])
           IN  /\ db'[target].subscription_start = now
               /\ db'[target].subscription_end = now + 21 * 86400
               /\ db'[target].payment_amount = 399
               /\ Replies(trace') = <<Reply("granted", <<>>)>>
               /\ is_user_subscribed(db', target, now)
               /\ osint_gate(db', target, now) /\ phone_gate(db', target, now)
               /\ vehicle_gate(db', target, now) /\ aadhar_gate(db', target, now)
               /\ upi_gate(db', target, now)]_vars

\* C10 witness: a grant at a later time than 0 to a user, here with a window that is
\* the 21 days from that time
C10_Witness ==
    /\ Done
    /\ cur.cmd = "grant" /\ Replies(trace) = <<Reply("granted", <<>>)>>
    /\ now > 0 /\ now < 21 * 86400
    /\ db[Customer].subscription_start = now
    /\ db[Customer].subscription_end = now + 1814400
    /\ db[Customer].payment_amount = 399
\* The end of the user's subscription window
EndOf(u) == get_user(db, u).subscription_end

\* C11: a user with subscription_end set is subscribed, reported active and passes the
\* access checks exactly while now < subscription_end, and is reported expired from
\* subscription_end on (one second before the end: active with days_remaining >= 0; one
\* second after: expired); a user never granted is inactive; /status shows the variant
\* of that status; time reaching subscription_end alone, with no operation, ends the
\* user's passing of the gate.
C11_ActiveUntilEnd ==
    /\ [](\A u \in UserIds :
            IF EndOf(u) = Unset
            THEN /\ ~is_user_subscribed(db, u, now)
                 /\ get_user_stats(db, u, now).subscription_status = "inactive"
            ELSE /\ is_user_subscribed(db, u, now) <=> now < EndOf(u)
                 /\ get_user_stats(db, u, now).subscription_status =
                        (IF now < EndOf(u) THEN "active" ELSE "expired")
                 /\ now < EndOf(u) => get_user_stats(db, u, now).days_remaining >= 0
                 /\ osint_gate(db, u, now) <=> now < EndOf(u)
                 /\ phone_gate(db, u, now) <=> now < EndOf(u)
                 /\ vehicle_gate(db, u, now) <=> now < EndOf(u)
                 /\ aadhar_gate(db, u, now) <=> now < EndOf(u)
                 /\ upi_gate(db, u, now) <=> now < EndOf(u)
                 /\ get_user_stats(db, u, EndOf(u) - 1).subscription_status = "active"
                 /\ get_user_stats(db, u, EndOf(u) - 1).days_remaining >= 0
                 /\ get_user_stats(db, u, EndOf(u) + 1).subscription_status = "expired"
                 /\ ~is_user_subscribed(db, u, EndOf(u) + 1))
    /\ [][(Dispatches({"status"}) /\ get_user(db, cur'.user).exists)
            => /\ Len(Replies(trace')) = 1
               /\ Replies(trace')[1].what = "status"
               /\ Replies(trace')[1].val[1] =
                     (IF EndOf(cur'.user) = Unset THEN "inactive"
                      ELSE IF now < EndOf(cur'.user) THEN "active" ELSE "expired")]_vars
    /\ [][\A u \in UserIds :
            (is_user_subscribed(db, u, now) /\ now' >= EndOf(u))
                => (db' = db /\ cur' = cur /\ trace' = trace
                    /\ ~is_user_subscribed(db', u, now') /\ ~phone_gate(db', u, now'))]_vars

\* C11 witness: /status at the very second the window ends shows the expired variant
C11_Witness ==
    /\ Done
    /\ cur.cmd = "status"
    /\ EndOf(cur.user) # Unset /\ now = EndOf(cur.user)
    /\ Replies(trace) = <<Reply("status", <<"expired", 0, "contact_admin">>)>>
\* The usage-log writes of a trace
UsageLogs(tr) == SelectSeq(tr, LAMBDA e : e.kind = "store" /\ e.what = "log_usage")

\* C12: a gated command from a subscribed caller makes, right after the access check
\* and before anything else, exactly one usage-log write of the command name and the
\* joined arguments (a placeholder when there are none); from a caller who is not
\* subscribed it makes none and does not run.
C12_UsageLogged ==
    [][Dispatches(GatedCmds)
        => IF is_user_subscribed(db, cur'.user, now)
           THEN /\ UsageLogs(trace') = <<LogUsage(cur'.cmd, UsageQuery(cur'.args))>>
                /\ Len(trace') > Len(GateOps)
                /\ trace'[Len(GateOps) + 1] = LogUsage(cur'.cmd, UsageQuery(cur'.args))
           ELSE /\ UsageLogs(trace') = <<>>
                /\ pc' = "done"
                /\ Whats(Replies(trace')) = <<"subscription_required">>]_vars
\* This step starts a handler
Starts == cur' # cur /\ cur' # NoUpdate

\* C13: every call of the upstream API is a suspension point: while a command waits
\* for the upstream response and another user's update is pending, the handler of
\* that update can be run.
C13_UpstreamCallYields ==
    (pc = "api" /\ queue # <<>> /\ Head(queue).user # cur.user) => ENABLED process_update

\* C14: the retry backoff blocks without yielding: from the start of a backoff sleep
\* until it ends no handler of another update can start and nothing but the end of the
\* sleep happens in the bot, so every pending update is still pending when it ends.
C14_BackoffBlocks ==
    /\ [](pc = "backoff" => ~ENABLED process_update)
    /\ [][pc = "backoff"
            => /\ ~Starts
               /\ cur' = cur /\ db' = db /\ trace' = trace
               /\ pc' \in {"backoff", "api"}
               /\ Len(queue') >= Len(queue)
               /\ SubSeq(queue', 1, Len(queue)) = queue]_vars

\* C14 witness: a lookup of the customer sleeps in its backoff while an update of the
\* admin is pending
C14_Witness ==
    /\ pc = "backoff"
    /\ cur.user = Customer
    /\ Sleeps(trace) # <<>>
    /\ queue # <<>> /\ Head(queue).user = admin_id

\* C15: handlers never overlap: a handler starts only when no handler is in progress,
\* the one before it having run to its end, and the update it handles is the oldest
\* pending one, so each user's updates are handled in their arrival order.
C15_OneHandlerAtATime ==
    /\ [](pc = "idle" => cur = NoUpdate)
    /\ [][Starts
            => /\ pc = "idle" /\ cur = NoUpdate
               /\ queue # <<>> /\ cur' = Head(queue) /\ queue' = Tail(queue)]_vars
    /\ [][(cur # NoUpdate /\ cur' # cur) => (pc = "done" /\ cur' = NoUpdate)]_vars

\* C15 witness: the handler of the customer's earlier update ran to its end after an
\* upstream call, with a later update of the same user still pending
C15_Witness ==
    /\ Done
    /\ cur.user = Customer /\ cur.cmd = "phone"
    /\ Https(trace) # <<>>
    /\ queue # <<>> /\ Head(queue).user = Customer
\* The final reply of a lookup
IsFinalReply(e) == e.kind = "reply" /\ e.what \in {"result", "error"}

\* The positions of the trace that hold an event of the kind
Positions(tr, kind) == {i \in DOMAIN tr : tr[i].kind = kind}

\* C16: in the per-type flow with valid, matching input each of these happens once and
\* in this order: (classification and the type check, before) the processing status
\* message, the typing indicator, the upstream call with all its attempts, the deletion
\* of the status message, one final reply (the result on success, the error text on
\* failure); the deletion happens on both outcomes and always before the final reply.
C16_PerTypeFlowOrder ==
    /\ [][(/\ Dispatches(TypeCmds)
            /\ cur'.args # <<>>
            /\ is_user_subscribed(db, cur'.user, now)
            /\ ~Mismatched(cur'))
            => /\ trace' = GateOps \o <<Reply("processing", <<ExpectedType(cur'.cmd)>>),
                                        ChatAction("typing")>>
               /\ pc' = "api"]_vars
    /\ [](\A i \in DOMAIN trace :
            (cur.cmd \in TypeCmds /\ trace[i].kind = "reply" /\ trace[i].what = "processing")
                => /\ i = Len(GateOps) + 1
                   /\ Len(trace) > i /\ trace[i + 1] = ChatAction("typing")
                   /\ Cardinality(Positions(trace, "chat_action")) = 1
                   /\ \A j \in Positions(trace, "http") \cup Positions(trace, "sleep") : j > i + 1
                   /\ IF Done
                      THEN /\ Https(trace) # <<>>
                           /\ Positions(trace, "delete") = {Len(trace) - 1}
                           /\ trace[Len(trace) - 1] = Delete("processing_msg")
                           /\ {j \in DOMAIN trace : IsFinalReply(trace[j])} = {Len(trace)}
                           /\ trace[Len(trace)].what =
                                 (IF api_result.success THEN "result" ELSE "error")
                           /\ \A j \in Positions(trace, "http") \cup Positions(trace, "sleep") :
                                 j < Len(trace) - 1
                      ELSE /\ pc \in {"api", "backoff", "reply"}
                           /\ Positions(trace, "delete") = {}
                           /\ \A j \in DOMAIN trace : ~IsFinalReply(trace[j]))

\* C16 witness: /vehicle with a plate, a server error, a backoff, then a 404: the status
\* message was deleted and the error text sent
C16_Witness ==
    /\ Done
    /\ cur.cmd = "vehicle"
    /\ trace = GateOps \o
          <<Reply("processing", <<"vehicle">>), ChatAction("typing"),
            Http(RequestParams(ToUpper(Q_plate), "vehicle")), Sleep(1),
            Http(RequestParams(ToUpper(Q_plate), "vehicle")),
            Delete("processing_msg"), Reply("error", <<"service unavailable">>)>>
\* C17: in every reachable state, whatever upserts, grants, re-grants and passage of
\* time led to it, a user whose subscription_start and subscription_end are both set
\* has subscription_end >= subscription_start.
C17_EndNotBeforeStart ==
    \A u \in UserIds :
        (db[u].subscription_start # Unset /\ db[u].subscription_end # Unset)
            => db[u].subscription_end >= db[u].subscription_start

\* C17 witness: a grant made when days had passed, its window not yet over
C17_Witness ==
    /\ db[Customer].subscription_start >= SecondsPerDay
    /\ db[Customer].subscription_end > now
    /\ now > db[Customer].subscription_start
\* C18: add_user inserts or ignores: for a user with a row it leaves the Store as it is
\* (subscription_start, subscription_end, payment_amount, payment_reference kept), and
\* twice is the same as once; so /start or a gated command from a subscribed user
\* leaves that user subscribed, with the same window, and changes no row.
C18_UpsertKeepsSubscription ==
    /\ [](\A u \in UserIds :
            /\ add_user(add_user(db, u), u) = add_user(db, u)
            /\ db[u].exists => add_user(db, u) = db
            /\ \A v \in UserIds \ {u} : add_user(db, u)[v] = db[v]
            /\ add_user(db, u)[u].exists)
    /\ [][(Dispatches({"start"} \cup GatedCmds) /\ db[cur'.user].exists)
            => /\ db' = db
               /\ is_user_subscribed(db', cur'.user, now) = is_user_subscribed(db, cur'.user, now)]_vars
    /\ [][(Dispatches({"start"} \cup GatedCmds) /\ is_user_subscribed(db, cur'.user, now))
            => /\ is_user_subscribed(db', cur'.user, now)
               /\ db'[cur'.user].subscription_start = db[cur'.user].subscription_start
               /\ db'[cur'.user].subscription_end = db[cur'.user].subscription_end
               /\ db'[cur'.user].payment_amount = db[cur'.user].payment_amount
               /\ db'[cur'.user].payment_reference = db[cur'.user].payment_reference]_vars

\* C18 witness: /start from a user whose subscription is active, the window still there
C18_Witness ==
    /\ Done
    /\ cur.cmd = "start"
    /\ Replies(trace) = <<Reply("welcome", <<"active">>)>>
    /\ db[cur.user].subscription_end = db[cur.user].subscription_start + 21 * 86400
    /\ db[cur.user].payment_reference = GivenRef(T_ref)
\* The variable is present and not empty
Present(value) == value.set /\ value.text # <<>>

\* The four variables are present and not empty, and the API address is a valid URL
EnvComplete ==
    /\ Present(env.TELEGRAM_BOT_TOKEN)
    /\ Present(env.BOT_USERNAME)
    /\ Present(env.OSINT_API_BASE_URL)
    /\ Present(env.OSINT_API_KEY)
    /\ IsUrl(env.OSINT_API_BASE_URL.text)

\* C19: the process serves (handlers registered, polling) only if TELEGRAM_BOT_TOKEN,
\* BOT_USERNAME, OSINT_API_BASE_URL and OSINT_API_KEY are all present and not empty and
\* OSINT_API_BASE_URL is a valid URL; otherwise it exits with a non-zero status before
\* any update is handled.
C19_FailFast ==
    /\ [](pc \notin {"boot", "exited"} => (EnvComplete /\ exit_status = Unset))
    /\ []((pc # "boot" /\ ~EnvComplete)
            => /\ pc = "exited"
               /\ exit_status # Unset /\ exit_status # 0
               /\ cur = NoUpdate /\ trace = <<>> /\ queue = <<>>
               /\ \A u \in UserIds : ~db[u].exists)
    /\ [][(pc \in {"boot", "exited"} /\ ~EnvComplete)
            => (pc' = "exited" /\ cur' = NoUpdate /\ db' = db)]_vars

\* C19 witness: every variable is set, the API key to the empty string: exit status 1
C19_Witness ==
    /\ pc = "exited"
    /\ exit_status = 1
    /\ env = [TELEGRAM_BOT_TOKEN |-> SetTo(BotToken), BOT_USERNAME |-> SetTo(BotUsername),
               OSINT_API_BASE_URL |-> SetTo(ApiUrl), OSINT_API_KEY |-> SetTo(<<>>)]
\* C20: error_handler, given an error whose text contains "Conflict", marks the process
\* unhealthy and sends no reply, and an unhealthy process is never marked healthy
\* again; given any other error it leaves the health flag alone and attempts the
\* generic error reply once when there is an update with a message (none otherwise); a
\* failure of that reply is swallowed: error_handler raises nothing, the process keeps
\* running and the next update is taken up.
C20_ErrorHandler ==
    /\ [][(pc = "error" /\ Contains(Conflict, context_error.text))
            => (~is_healthy' /\ trace' = trace)]_vars
    /\ [][~is_healthy => ~is_healthy']_vars
    /\ [][(pc = "error" /\ ~Contains(Conflict, context_error.text))
            => /\ is_healthy' = is_healthy
               /\ IF cur # NoUpdate
                  THEN trace' \in {Append(trace, Reply("generic_error", <<>>)),
                                   Append(trace, ReplyFailed("generic_error"))}
                  ELSE trace' = trace]_vars
    /\ [][pc = "error"
            => /\ pc' = (IF cur # NoUpdate THEN "failed" ELSE "idle")
               /\ cur' = cur /\ db' = db /\ exit_status' = exit_status]_vars
    /\ [](\A i \in DOMAIN trace : trace[i].kind # "raise")
    /\ [](pc = "failed" => ENABLED HandlerReturns)
    /\ [](pc = "idle" =>
            ENABLED (\E u \in UserIds, args \in NoArgs :
                        help_command(u, args) /\ UNCHANGED process))

\* C20 witness: after a conflict made the process unhealthy, /help was taken up, its
\* reply raised "Timed out" and the generic error reply failed as well
C20_Witness ==
    /\ ~is_healthy
    /\ pc = "failed"
    /\ cur.cmd = "help"
    /\ trace = <<ReplyFailed("generic_error")>>
\* C21: /subscribe replies with the subscription-required message, and with nothing
\* else, for every caller: subscribed, expired, never granted, or with no Store record
\* yet; it leaves the Store unchanged.
C21_SubscribeAlwaysShows ==
    [][Dispatches({"subscribe"})
        => /\ Whats(Replies(trace')) = <<"subscription_required">>
           /\ StoreOps(trace') = <<StoreOp("get_user_stats")>>
           /\ db' = db
           /\ pc' = "done"]_vars

\* C21 witness: /subscribe from a caller with no Store record ended in the message,
\* and the caller still has no record
C21_Witness ==
    /\ Done
    /\ cur.cmd = "subscribe"
    /\ ~db[cur.user].exists
    /\ Replies(trace) = <<Reply("subscription_required", <<"required">>)>>
\* The variant the Store status of the caller calls for
VariantOf(u) ==
    IF EndOf(u) = Unset THEN "inactive"
    ELSE IF now < EndOf(u) THEN "active" ELSE "expired"

\* /status sends one reply, the variant of the caller's status, with the admin-contact
\* button iff the variant is not active, and leaves the Store unchanged
StatusShowsVariant ==
    /\ Len(Replies(trace')) = 1
    /\ Replies(trace')[1].what = "status"
    /\ Replies(trace')[1].val[1] = VariantOf(cur'.user)
    /\ Replies(trace')[1].val[3] = "contact_admin" <=> Replies(trace')[1].val[1] # "active"
    /\ db' = db

\* C22 as stated: /status replies, for every caller, with exactly one of the variants
\* active, expired or inactive, chosen by the caller's Store status, with the
\* admin-contact button iff the variant is not active; the Store is unchanged.
C22_Original == [][Dispatches({"status"}) => StatusShowsVariant]_vars

\* C22, amended: that is what /status does for every caller who has a Store record;
\* a caller with no record gets the single user-not-found reply, which is none of the
\* three variants and has no button, and the Store is unchanged: /status registers
\* nobody.
C22_StatusVariant ==
    [][Dispatches({"status"})
        => /\ pc' = "done"
           /\ StoreOps(trace') = <<StoreOp("get_user_stats")>>
           /\ IF get_user(db, cur'.user).exists
              THEN StatusShowsVariant
              ELSE /\ Replies(trace') = <<Reply("status_not_found", <<>>)>>
                   /\ db' = db]_vars

\* C22 witness: /status from a caller whose subscription is active shows the active
\* variant without the button
C22_Witness ==
    /\ Done
    /\ cur.cmd = "status"
    /\ Len(Replies(trace)) = 1
    /\ Replies(trace)[1].what = "status"
    /\ Replies(trace)[1].val[1] = "active"
    /\ Replies(trace)[1].val[3] = "none"
\* The edits of the triggering message
Edits(tr) == EventsOf(tr, "edit")

\* A callback query arrives
Callback == Dispatches({"callback_query"})

\* C23 as stated: for the check_status callback the callback is answered before the
\* message is edited, and the message is edited exactly once: to the active summary iff
\* the caller's status is active, otherwise to the no-active-subscription summary; a
\* callback with any other data is answered and edits nothing; the Store is unchanged.
C23_Original ==
    [][Callback
        => /\ trace'[1] = Answer
           /\ db' = db
           /\ IF cur'.args = <<check_status>>
              THEN /\ Len(Edits(trace')) = 1
                   /\ Edits(trace')[1].what =
                         (IF VariantOf(cur'.user) = "active" THEN "active_summary"
                          ELSE "no_active_subscription")
              ELSE Edits(trace') = <<>>]_vars

\* C23, amended: for the check_status callback the callback is answered first and the
\* message is then edited exactly once: to the active summary iff the caller's status
\* is active, to the no-active-subscription summary for a caller with a Store record
\* who is expired or inactive, and to the user-not-found text for a caller with no
\* Store record; a callback with any other data is answered and edits nothing; nothing
\* is replied and the Store is unchanged.
C23_CallbackAnswerThenEdit ==
    [][Callback
        => /\ pc' = "done"
           /\ db' = db
           /\ Replies(trace') = <<>>
           /\ IF cur'.args = <<check_status>>
              THEN /\ trace'[1] = Answer
                   /\ Positions(trace', "answer") = {1}
                   /\ Positions(trace', "edit") = {Len(trace')}
                   /\ Len(trace') > 1
                   /\ trace'[Len(trace')].what =
                         (IF ~get_user(db, cur'.user).exists THEN "status_not_found"
                          ELSE IF VariantOf(cur'.user) = "active" THEN "active_summary"
                          ELSE "no_active_subscription")
              ELSE trace' = <<Answer>>]_vars

\* C23 witness: the check_status callback of a caller whose subscription has expired
\* was answered, then the message was edited to the no-active-subscription summary
C23_Witness ==
    /\ Done
    /\ cur.cmd = "callback_query" /\ cur.args = <<check_status>>
    /\ VariantOf(cur.user) = "expired"
    /\ trace = <<Answer, StoreOp("get_user_stats"), Edit("no_active_subscription", <<>>)>>
\* The seconds slept in all
RECURSIVE TotalSleep(_)
TotalSleep(sleeps) ==
    IF sleeps = <<>> THEN 0 ELSE Head(sleeps).val[1] + TotalSleep(Tail(sleeps))

\* C24: the attempt that is the n-th GET of an invocation is followed by a sleep of n
\* seconds when it ended in a 429 and of exactly 1 second when it ended in any other
\* retryable failure, if n < 3; the third attempt and a non-retryable outcome are
\* followed by no sleep; nothing else sleeps, so one invocation sleeps at most twice and
\* at most 3 seconds in all.
C24_BackoffDelays ==
    /\ [][(pc = "api" /\ Len(Https(trace')) = Len(Https(trace)) + 1)
            => LET n == Len(Https(trace'))
               IN  Sleeps(trace') = Sleeps(trace) \o
                      (IF Retryable(last') /\ n < 3
                       THEN <<Sleep(IF last'.exc = "none" /\ last'.code = 429 THEN n ELSE 1)>>
                       ELSE <<>>)]_vars
    /\ [][(pc # "api" \/ Len(Https(trace')) = Len(Https(trace)))
            => (Sleeps(trace') = Sleeps(trace) \/ trace' = <<>>)]_vars
    /\ [](Len(Sleeps(trace)) <= 2 /\ TotalSleep(Sleeps(trace)) <= 3)

\* C24 witness: three 429s in a row: 1 second, then 2 seconds, then the failure
C24_Witness ==
    /\ pc = "reply"
    /\ Sleeps(trace) = <<Sleep(1), Sleep(2)>>
    /\ Len(Https(trace)) = 3
    /\ api_result = Failure("rate limit exceeded", 429)
\* C25: an attempt that receives a 200 ends the invocation at once in a success result,
\* whatever the body and whatever came before: no sleep, no further GET; the payload is
\* the parsed value when the body parses as JSON and the mapping {raw_response: body},
\* with the body text as it was received, when it does not; the command then sends the
\* result, not an error.
C25_OkIsSuccess ==
    /\ [][(/\ pc = "api"
            /\ Len(Https(trace')) = Len(Https(trace)) + 1
            /\ last'.exc = "none" /\ last'.code = 200)
            => /\ pc' = "reply"
               /\ Sleeps(trace') = Sleeps(trace)
               /\ api_result'.returned /\ api_result'.success
               /\ IF ParsesAsJson(last'.body)
                  THEN /\ api_result'.data = "json"
                       /\ api_result'.payload = json_value(last'.body)
                  ELSE /\ api_result'.data = "raw_response"
                       /\ api_result'.payload = last'.body]_vars
    /\ []((Attempted /\ last.exc = "none" /\ last.code = 200)
            => /\ pc \notin {"api", "backoff"}
               /\ api_result.success
               /\ Done => trace[Len(trace)] = Reply("result", <<api_result.data>>))

\* C25 witness: a 200 on the third attempt whose body is the text " busy ": success,
\* with the text as it was received
C25_Witness ==
    /\ pc = "reply"
    /\ Len(Https(trace)) = 3
    /\ last = Response(200, PaddedTextBody)
    /\ api_result = Success("raw_response", PaddedTextBody)
\* What a command of that name does with the input: the reply of unknown_command, a
\* rejection by the type check, or the lookup
RunWith(cmd, query) ==
    IF cmd \notin RegisteredCommands THEN "unknown_command"
    ELSE IF cmd \in TypeCmds /\ ~validate_input(query).valid THEN "invalid_format"
    ELSE IF cmd \in TypeCmds /\ TypeMismatch(validate_input(query).type, ExpectedType(cmd))
    THEN "type_mismatch"
    ELSE IF cmd \in GatedCmds THEN "lookup"
    ELSE "other"

\* C26: every type-mismatch rejection names, as the correct command, a registered
\* command that accepts the input: run with the same input, the suggested command ends
\* neither in the unknown-command reply nor in another mismatch.
C26_SuggestionAccepted ==
    [][(/\ Dispatches(TypeCmds)
        /\ Replies(trace') # <<>>
        /\ Replies(trace')[Len(Replies(trace'))].what = "type_mismatch")
        => LET detected_type == Replies(trace')[Len(Replies(trace'))].val[1]
               suggested == suggested_command(detected_type)
           IN  /\ suggested \in RegisteredCommands
               /\ RunWith(suggested, JoinArgs(cur'.args)) = "lookup"]_vars
\* The Store's grant operation has been given an absent payment reference for the user
StoredAbsentRef(d, u) == d[u].subscription_end # Unset /\ d[u].payment_reference = NoRef

\* The reference was generated from the timestamp t
GeneratedAt(ref, t) == ref.kind = "auto" /\ ref.at = t

\* C27 as stated: the Subscription Manager's grant operation, called without a payment
\* reference, generates one from the current timestamp, so that the Store's grant
\* operation never receives an absent payment reference.
C27_Original ==
    /\ [][(pc = "idle" /\ cur'.cmd = "grant_user_subscription"
             /\ trace'[1].val[3] = NoRef /\ get_user(db, trace'[1].val[1]).exists)
            => GeneratedAt(db'[trace'[1].val[1]].payment_reference, now)]_vars
    /\ [](\A u \in UserIds : ~StoredAbsentRef(db, u))

\* C27, amended: the reference is generated from the current timestamp by the /grant
\* command when the admin gives none, before it calls the Subscription Manager's grant
\* operation; that operation passes the reference it is given to the Store's grant
\* operation as it is, an absent one included. A /grant therefore never gives the Store
\* an absent reference; a call of the operation without a reference does.
C27_RefGeneratedByCommand ==
    /\ [][(pc = "idle" /\ cur'.cmd = "grant_user_subscription")
            => LET user_id == trace'[1].val[1]
                   payment_ref == trace'[1].val[3]
               IN  IF get_user(db, user_id).exists
                   THEN db'[user_id].payment_reference = payment_ref
                   ELSE db' = db]_vars
    /\ [][(Dispatches({"grant"}) /\ db' # db)
            => LET user_id == ParseInt(cur'.args[1])
               IN  /\ IF Len(cur'.args) > 1
                      THEN db'[user_id].payment_reference = GivenRef(cur'.args[2])
                      ELSE GeneratedAt(db'[user_id].payment_reference, now)
                   /\ ~StoredAbsentRef(db', user_id)]_vars

\* C27 witness: the operation was called at a time other than 0 without a reference
\* for a registered user, and the Store holds a window with an absent reference
C27_Witness ==
    /\ Done
    /\ now # 0
    /\ cur.cmd = "grant_user_subscription"
    /\ trace[1] = Called(Customer, admin_id, NoRef)
    /\ StoredAbsentRef(db, Customer)
\* The call of validate_input that has returned, and what it returned
ClassifierDone == Done /\ cur.cmd = "validate_input"

\* validate_input was given the text, with or without whitespace around it
Given(text) == \E l \in Pads, r \in Pads : cur.args[1] = l \o text \o r

\* C28: the classifier maps every string of exactly 10 digits to phone with the value
\* unchanged, every string +91 followed by exactly 10 digits to phone with the 10 digits
\* as the value, and every string of exactly 12 digits to aadhaar with the value
\* unchanged, whatever whitespace surrounds the string.
C28_DigitsClassified ==
    ClassifierDone =>
        \A run \in DigitRuns :
            /\ (Len(run) = 10 /\ Given(run))
                  => (trace[1].what = "phone" /\ trace[1].val = run)
            /\ (Len(run) = 10 /\ Given(<<"+", "9", "1">> \o run))
                  => (trace[1].what = "phone" /\ trace[1].val = run)
            /\ (Len(run) = 12 /\ Given(run))
                  => (trace[1].what = "aadhaar" /\ trace[1].val = run)

\* C28 witness: "+91" and ten digits between a tab and a newline came back as phone
\* with the ten digits
C28_Witness ==
    /\ ClassifierDone
    /\ cur.args[1] = <<"\t", "\n">> \o <<"+", "9", "1">> \o Counting(10) \o <<"\t", "\n">>
    /\ trace[1] = Classified(Valid("phone", Counting(10)))

\* C29: no numeric-only string, of any length, is classified as domain, url or username:
\* every such input is classified phone, aadhaar, or invalid ("none").
C29_NumericOnly ==
    ClassifierDone =>
        \A run \in DigitRuns :
            Given(run) => trace[1].what \in {"phone", "aadhaar", "none"}

\* The last four characters of a text
Ending(text) == SubSeq(text, Len(text) - 3, Len(text))

\* C30: for every input that contains @ and matches the loose handle-at-domain pattern,
\* the classifier returns email if and only if the input ends in .com, .org, .net, .edu
\* or .gov, and upi otherwise, with the input as the value; such an input is never
\* classified as domain, url or username.
C30_HandleAtDomain ==
    ClassifierDone =>
        /\ \A local \in Locals, host \in Hosts :
              LET text == local \o <<"@">> \o host
                  email == Ending(text) \in {<<".", "c", "o", "m">>, <<".", "o", "r", "g">>,
                                            <<".", "n", "e", "t">>, <<".", "e", "d", "u">>,
                                            <<".", "g", "o", "v">>}
              IN  Given(text) =>
                      /\ trace[1].what = (IF email THEN "email" ELSE "upi")
                      /\ trace[1].val = text
        /\ MatchesHandleAtDomain(Strip(cur.args[1]))
              => trace[1].what \in {"email", "upi"}

\* C30 witness: user@paytm came back as upi
C30_Witness ==
    /\ ClassifierDone
    /\ cur.args[1] = Q_upi
    /\ Q_upi = <<"u", "s", "e", "r">> \o <<"@">> \o <<"p", "a", "y", "t", "m">>
    /\ trace[1] = Classified(Valid("upi", Q_upi))

\* The call of format_osint_response that has returned: its payload and its message
FormatterDone == Done /\ cur.cmd = "format_osint_response"

Payload == trace[1].info

Message == trace[1].val

\* The payload is a mapping with a non-empty data list of records that are mappings
HasRecords(data) ==
    /\ IsDict(data)
    /\ HasKey(data, K_data)
    /\ Get(data, K_data).tag = "list"
    /\ Get(data, K_data).items # <<>>
    /\ \A i \in DOMAIN Get(data, K_data).items : IsDict(Get(data, K_data).items[i])

\* A value that is empty or blank: null, a text of nothing but whitespace, an empty list
\* or mapping
EmptyOrBlank(v) ==
    \/ v.tag = "null"
    \/ v.tag = "str" /\ Strip(v.text) = <<>>
    \/ v.tag \in {"list", "dict"} /\ v.items = <<>>

\* The line each field of a record has, for the fields from the i-th on; a field for
\* which Skipped holds has none.  Skipped is a set of values
RECURSIVE LinesOfFields(_, _, _)
LinesOfFields(record, i, skipped) ==
    IF i > Len(record.keys) THEN <<>>
    ELSE (IF record.items[i] \in skipped THEN <<>>
          ELSE <<IF Mapped(field_mappings, record.keys[i])
                 THEN Line("field", LabelOf(field_mappings, record.keys[i]),
                           record.keys[i], PyStr(record.items[i]))
                 ELSE Line("unknown_field", "", formatted_key(record.keys[i]),
                           PyStr(record.items[i]))>>)
         \o LinesOfFields(record, i + 1, skipped)

\* The lines of the records from the i-th on: a header with the record's number when
\* there is more than one record, then the fields
RECURSIVE LinesOfRecords(_, _, _)
LinesOfRecords(list, i, skipped) ==
    IF i > Len(list) THEN <<>>
    ELSE (IF Len(list) > 1 THEN <<Line("record", "", <<>>, DecimalText(i))>> ELSE <<>>)
         \o LinesOfFields(list[i], 1, skipped)
         \o LinesOfRecords(list, i + 1, skipped)

\* The lines of the message between the heading and the footer, the empty ones left out
NotBlank(line) == line # Blank

BodyOf(message) == SelectSeq(SubSeq(message, 4, Len(message) - 2), NotBlank)

\* C31: for a mapping payload with a non-empty data list, the formatter renders each
\* field whose value is non-empty exactly once (a known key with its label, an unknown
\* key title-cased), renders no line for a field whose value is empty or blank, and
\* renders a 1-based record header for each record if and only if the list has more than
\* one record.
C31_FieldsRendered ==
    (FormatterDone /\ HasRecords(Payload)) =>
        BodyOf(Message) =
            LinesOfRecords(Get(Payload, K_data).items, 1,
                           {v \in FieldValues : EmptyOrBlank(v)})

\* The same with the values Python takes for false (zero and False among them) skipped
FieldsRenderedUnlessFalse ==
    (FormatterDone /\ HasRecords(Payload)) =>
        BodyOf(Message) =
            LinesOfRecords(Get(Payload, K_data).items, 1,
                           {v \in FieldValues : EmptyOrBlank(v) \/ v \in {Num(0), Bool(FALSE)}})

\* The lines of a kind in a message
LinesOfKind(message, kind) == {i \in DOMAIN message : message[i].kind = kind}

\* C32: for a payload that is not a mapping (a plain string, for one), the message has
\* the Data: line, and that line renders the payload's textual form verbatim.
C32_PlainPayloadVerbatim ==
    (FormatterDone /\ ~IsDict(Payload)) =>
        /\ LinesOfKind(Message, "data") = {4}
        /\ Message[4].text = PyStr(Payload)
        /\ Payload.tag = "str" => Message[4].text = Payload.text

\* C32 witness: the string " busy " was formatted and stands in the Data: line as it is
C32_Witness ==
    /\ FormatterDone
    /\ Payload = Str(<<" ", "b", "u", "s", "y", " ">>)
    /\ Message[4] = Line("data", "", <<>>, <<" ", "b", "u", "s", "y", " ">>)

\* The footer the payload calls for: its own timestamp field if it has one, "Just now"
\* otherwise
QueriedAt(data) ==
    Line("queried", "", <<>>,
         IF IsDict(data) /\ HasKey(data, K_timestamp) THEN PyStr(Get(data, K_timestamp))
         ELSE JustNow)

\* The message ends with the footer and has no raw dump, unless rendering the payload
\* failed, and then it has the raw dump
FooterOrDump(data, message) ==
    IF Body(data).raised
    THEN LinesOfKind(message, "raw") # {}
    ELSE /\ message[Len(message)] = QueriedAt(data)
         /\ LinesOfKind(message, "raw") = {}

\* C33: for every payload, mapping or not, the formatter's message ends with the
\* queried-at footer showing the payload's own timestamp field if it has one and
\* "Just now" otherwise; the raw-dump fallback appears only when rendering the payload
\* fails.
C33_FooterAlways == FormatterDone => FooterOrDump(Payload, Message)

\* The same for the payloads that are mappings
FooterForMappings == (FormatterDone /\ IsDict(Payload)) => FooterOrDump(Payload, Message)

\* C34: an Aadhaar number given to /aadhar by a subscribed user with spaces or hyphens
\* between its 12 digits has them removed and is looked up as aadhaar: the upstream
\* calls of the command carry the 12-digit value, and there is at least one.
C34_GroupedAadhaarLookedUp ==
    (/\ Done
     /\ cur.cmd = "aadhar"
     /\ cur.args \in GroupedAadharArgs
     /\ is_user_subscribed(db, cur.user, now))
        => /\ Https(trace) # <<>>
           /\ \A i \in DOMAIN Https(trace) :
                 Https(trace)[i].val = {<<"key", api_key>>, <<"aadhaar", Q_aadhaar>>}

\* C35: every command that the admin help text enumerates is dispatched to a registered
\* admin handler when the admin sends it; none of them ends in the unknown-command
\* reply.
C35_AdminHelpCommandsRegistered ==
    (Done /\ cur.user = admin_id /\ cur.cmd \in AdminHelpCommands)
        => \A i \in DOMAIN Replies(trace) : Replies(trace)[i].what # "unknown_command"

\* A result record: success = true with a data payload, or success = false with an
\* error string
ResultRecord(r) ==
    /\ r.returned
    /\ r # ReturnedNone
    /\ IF r.success THEN r.data \in {"json", "raw_response"} /\ r.error = "none"
       ELSE r.error \notin {"none", "None"} /\ r.data = "none"

\* C36: call_osint_api terminates for every query type and every sequence of attempt
\* outcomes and always returns a result record (success = true with a data payload, or
\* success = false with an error string): while it runs, the loop has an iteration left,
\* which returns or goes on to the next with a higher index; when it is over, there is a
\* result record; it never returns without one.
C36_AlwaysAResult ==
    /\ pc \in {"api", "backoff"} => attempt < max_retries /\ ~api_result.returned
    /\ pc = "reply" => ResultRecord(api_result)
    /\ api_result.returned => ResultRecord(api_result)

\* C36 witness: the third attempt raised an exception of no named kind and the call
\* returned the failure for it
C36_Witness ==
    /\ pc = "reply"
    /\ attempt = max_retries - 1
    /\ last.exc = "Exception"
    /\ api_result = Failure("unexpected error", 0)

\* The subscription fields of a user's record
SubscriptionOf(d, u) ==
    <<d[u].subscription_start, d[u].subscription_end, d[u].payment_amount,
      d[u].payment_reference>>

\* C37: across any sequence of commands and callbacks, a user's subscription_start,
\* subscription_end, payment_amount and payment_reference change only through a
\* successful /grant issued by the configured admin, and only for the target user of
\* that grant; no other step changes them, and no step removes a user record.
C37_OnlyGrantChangesSubscription ==
    [][\A u \in UserIds :
          /\ db[u].exists => db'[u].exists
          /\ SubscriptionOf(db', u) # SubscriptionOf(db, u)
                => /\ Dispatches({"grant"})
                   /\ cur'.user = admin_id
                   /\ cur'.args # <<>>
                   /\ IsIntText(cur'.args[1])
                   /\ ParseInt(cur'.args[1]) = u
                   /\ Replies(trace') = <<Reply("granted", <<>>)>>]_vars

\* C37 witness: the admin's /grant with a payment reference has changed the customer's
\* subscription fields and left the admin's own as they were
C37_Witness ==
    /\ Done
    /\ cur = [user |-> admin_id, cmd |-> "grant", args |-> <<T_customer, T_ref>>]
    /\ db[Customer].payment_reference = GivenRef(T_ref)
    /\ db[Customer].subscription_start = now
    /\ db[admin_id].exists
    /\ SubscriptionOf(db, admin_id) = SubscriptionOf([u \in UserIds |-> NewRow], admin_id)

\* C38: classification is idempotent on its own normalized output: for every input that
\* classifies as valid with type T and value v, classifying v again yields valid with
\* the same type T and the same value v.
C38_ClassificationIdempotent ==
    (ClassifierDone /\ trace[1].what # "none") =>
        /\ validate_input(cur.args[1]) = Valid(trace[1].what, trace[1].val)
        /\ validate_input(trace[1].val) = Valid(trace[1].what, trace[1].val)

\* C38 witness: a plate typed in small letters came back in capitals, and the plate in
\* capitals classifies as itself
C38_Witness ==
    /\ ClassifierDone
    /\ cur.args[1] = <<"j", "k", "0", "5", "f", "1", "8", "0", "6">>
    /\ trace[1] = Classified(Valid("vehicle", <<"J", "K", "0", "5", "F", "1", "8", "0", "6">>))
    /\ validate_input(trace[1].val) = Valid("vehicle", trace[1].val)
====
